---- MODULE Spec2Model ----
(***************************************************************************)
(* Model of the FoundationDB tuple layer of the fdb crate                  *)
(* (src/fdb/src/tuple): the element model, the serializer, the parser,     *)
(* the incomplete-versionstamp locator, range derivation and the typed     *)
(* accessors; of key_util::strinc (src/fdb/src/tuple/key_util.rs) and of   *)
(* Subspace (src/fdb/src/subspace.rs).                                     *)
(*                                                                         *)
(* Representation.  A byte is a number in 0..255 and Bytes is a sequence   *)
(* of bytes.  Every Rust integer (u8..u64, i8..i64, BigInt) is held as its *)
(* magnitude in minimal big-endian bytes (<<>> is zero) plus, for signed   *)
(* values, a sign, because the values of the program (up to 2^64 and       *)
(* beyond) do not fit the model checker's machine integers.  f32/f64 are   *)
(* held as their 4/8 big-endian IEEE-754 bytes, a String as its UTF-8      *)
(* bytes.                                                                  *)
(***************************************************************************)
EXTENDS Integers, Sequences, FiniteSets, TLC

---------------------------------------------------------------------------
(* Bounds of the model.                                                    *)

\* total number of elements (nested ones included) in the two tuples
MaxSize == 3
\* widest integer magnitude, in bytes, offered to add_bigint
MaxIntBytes == 9
\* longest raw buffer handed to Tuple::from_bytes
MaxInputLen == 4
\* highest index at which an integer is appended and read back
MaxIndex == 1
MaxChain == 2

---------------------------------------------------------------------------
(* Byte-string helpers.                                                    *)

\* unsigned lexicographic order of byte strings (Ord for [u8] / Bytes)
RECURSIVE BytesLess(_, _)
BytesLess(x, y) ==
    IF y = <<>> THEN FALSE
    ELSE IF x = <<>> THEN TRUE
    ELSE IF x[1] # y[1] THEN x[1] < y[1]
    ELSE BytesLess(Tail(x), Tail(y))

\* the suffix i[n..] of a slice (n is 0-based as in Rust)
SliceFrom(i, n) == SubSeq(i, n + 1, Len(i))

\* the bytes left as they are
neg_u8_slice_into_vec_plain(i) == i

\* utils::neg_u8_slice_into_vec: bitwise complement of every byte
neg_u8_slice_into_vec(i) == [k \in 1..Len(i) |-> 255 - i[k]]

\* uN::to_be_bytes for a value of a w-byte unsigned type
to_be_bytes(u, w) ==
    [k \in 1..w |-> IF k <= w - Len(u) THEN 0 ELSE u[k - (w - Len(u))]]

\* Buf::get_uN / BigInt::from_bytes_be: the number a big-endian buffer
\* denotes (leading zero bytes do not contribute)
RECURSIVE from_be_bytes(_)
from_be_bytes(x) ==
    IF x = <<>> THEN <<>>
    ELSE IF x[1] = 0 THEN from_be_bytes(Tail(x))
    ELSE x

\* comparison of two magnitudes (numbers in minimal big-endian form)
MagLess(x, y) ==
    \/ Len(x) < Len(y)
    \/ Len(x) = Len(y) /\ BytesLess(x, y)

MagLe(x, y) == x = y \/ MagLess(x, y)

\* (lo..=hi).contains(u) on unsigned values
InRange(u, lo, hi) == MagLe(lo, u) /\ MagLe(u, hi)

\* The integer literals of tuple.rs are of the forms 2^k, 2^k - 1 and
\* 2^k + 1 (128, 32767, 2147483649, ...); as magnitudes:
Pow2(k) == <<2 ^ (k % 8)>> \o [j \in 1..(k \div 8) |-> 0]
Pow2Minus1(k) ==
    (IF k % 8 = 0 THEN <<>> ELSE <<2 ^ (k % 8) - 1>>) \o [j \in 1..(k \div 8) |-> 255]
Pow2Plus1(k) ==
    IF k < 8 THEN <<2 ^ k + 1>>
    ELSE [j \in 1..(1 + k \div 8) |->
            IF j = 1 + k \div 8 THEN 1 ELSE Pow2(k)[j]]

---------------------------------------------------------------------------
(* Element model: enum TupleValue, struct Tuple, struct Versionstamp.      *)

\* Tuple::new
TupleNew == [elements |-> <<>>, has_incomplete_versionstamp |-> FALSE]

\* One record shape for every variant of TupleValue: kind is the variant,
\* b its byte/number payload, t the nested Tuple, and complete /
\* user_version the remaining fields of a Versionstamp (tr_version is b).
TV(kind, b) ==
    [kind |-> kind, b |-> b, t |-> TupleNew, complete |-> FALSE, user_version |-> 0]

NullValue == TV("NullValue", <<>>)
ByteString(b) == TV("ByteString", b)
UnicodeString(s) == TV("UnicodeString", s)
NestedTuple(t) == [TV("NestedTuple", <<>>) EXCEPT !.t = t]
IntZero == TV("IntZero", <<>>)
FalseValue == TV("FalseValue", <<>>)
TrueValue == TV("TrueValue", <<>>)
Versionstamp96Bit(v) ==
    [TV("Versionstamp96Bit", v.tr_version) EXCEPT
        !.complete = v.complete, !.user_version = v.user_version]

VERSIONSTAMP_TR_VERSION_LEN == 10
VERSIONSTAMP_USER_VERSION_LEN == 2

\* Versionstamp::complete (panics unless tr_version has 10 bytes; the model
\* offers only 10-byte transaction versions)
VersionstampComplete(tr_version, user_version) ==
    [complete |-> TRUE, tr_version |-> tr_version, user_version |-> user_version]

\* Versionstamp::incomplete
VersionstampIncomplete(user_version) ==
    [complete |-> FALSE,
     tr_version |-> [k \in 1..VERSIONSTAMP_TR_VERSION_LEN |-> 255],
     user_version |-> user_version]

\* a from_bytes that reads the user version little-endian
VersionstampFromBytes_le(version_bytes) ==
    [complete |-> \E k \in 1..VERSIONSTAMP_TR_VERSION_LEN : version_bytes[k] # 255,
     tr_version |-> SubSeq(version_bytes, 1, VERSIONSTAMP_TR_VERSION_LEN),
     user_version |-> version_bytes[VERSIONSTAMP_TR_VERSION_LEN + 1]
                      + version_bytes[VERSIONSTAMP_TR_VERSION_LEN + 2] * 256]

\* Versionstamp::from_bytes on a 12-byte buffer
VersionstampFromBytes(version_bytes) ==
    [complete |-> \E k \in 1..VERSIONSTAMP_TR_VERSION_LEN : version_bytes[k] # 255,
     tr_version |-> SubSeq(version_bytes, 1, VERSIONSTAMP_TR_VERSION_LEN),
     user_version |-> version_bytes[VERSIONSTAMP_TR_VERSION_LEN + 1] * 256
                      + version_bytes[VERSIONSTAMP_TR_VERSION_LEN + 2]]

\* the Versionstamp held by a Versionstamp96Bit element
VersionstampOf(x) ==
    [complete |-> x.complete, tr_version |-> x.b, user_version |-> x.user_version]

\* Versionstamp::get_bytes: tr_version followed by put_u16(user_version)
VersionstampGetBytes(v) ==
    v.tr_version \o <<v.user_version \div 256, v.user_version % 256>>

---------------------------------------------------------------------------
(* Signed integers of the builder API (i8, i16, i32, i64, BigInt).         *)

\* a signed value: sign and magnitude; zero is never negative
SInt(neg, mag) == [neg |-> neg, mag |-> mag]

\* iN::try_from(i).is_ok(), for N = n: -2^(n-1) <= i <= 2^(n-1) - 1
Fits(n, i) ==
    IF i.neg THEN MagLe(i.mag, Pow2(n - 1)) ELSE MagLe(i.mag, Pow2Minus1(n - 1))

---------------------------------------------------------------------------
(* Builder operations of Tuple (tuple.rs).                                 *)

\* self.elements.push(x)
Push(t, x) == [t EXCEPT !.elements = Append(@, x)]

add_null(t) == Push(t, NullValue)
add_bytes(t, b) == Push(t, ByteString(b))
add_string(t, s) == Push(t, UnicodeString(s))

\* an add_tuple that leaves the flag of the outer tuple as it was
add_tuple_flag_kept(t, t1) ==
    [elements |-> Append(t.elements, NestedTuple(t1)),
     has_incomplete_versionstamp |-> t.has_incomplete_versionstamp]

add_tuple(t, t1) ==
    [elements |-> Append(t.elements, NestedTuple(t1)),
     has_incomplete_versionstamp |->
        t.has_incomplete_versionstamp \/ t1.has_incomplete_versionstamp]

add_i8(t, i) ==
    IF i.neg THEN Push(t, TV("NegInt1", i.mag))
    ELSE IF i.mag = <<>> THEN Push(t, IntZero)
    ELSE Push(t, TV("PosInt1", i.mag))

\* an add_i16 that always uses the two-byte buckets
add_i16_own_width(t, i) ==
    IF i.neg THEN Push(t, TV("NegInt2", i.mag))
    ELSE Push(t, TV("PosInt2", i.mag))

add_i16(t, i) ==
    IF Fits(8, i) THEN add_i8(t, i)
    ELSE IF i.neg
    THEN IF InRange(i.mag, Pow2(8), Pow2(15)) THEN Push(t, TV("NegInt2", i.mag))
         ELSE Push(t, TV("NegInt1", i.mag))
    ELSE IF InRange(i.mag, Pow2(7), Pow2Minus1(8)) THEN Push(t, TV("PosInt1", i.mag))
         ELSE Push(t, TV("PosInt2", i.mag))

add_i32(t, i) ==
    IF Fits(16, i) THEN add_i16(t, i)
    ELSE IF i.neg
    THEN IF InRange(i.mag, Pow2(24), Pow2(31)) THEN Push(t, TV("NegInt4", i.mag))
         ELSE IF InRange(i.mag, Pow2(16), Pow2Minus1(24)) THEN Push(t, TV("NegInt3", i.mag))
         ELSE Push(t, TV("NegInt2", i.mag))
    ELSE IF InRange(i.mag, Pow2(15), Pow2Minus1(16)) THEN Push(t, TV("PosInt2", i.mag))
         ELSE IF InRange(i.mag, Pow2(16), Pow2Minus1(24)) THEN Push(t, TV("PosInt3", i.mag))
         ELSE Push(t, TV("PosInt4", i.mag))

add_i64(t, i) ==
    IF Fits(32, i) THEN add_i32(t, i)
    ELSE IF i.neg
    THEN IF InRange(i.mag, Pow2(56), Pow2(63))
            THEN Push(t, TV("NegInt8", i.mag))
         ELSE IF InRange(i.mag, Pow2(48), Pow2Minus1(56))
            THEN Push(t, TV("NegInt7", i.mag))
         ELSE IF InRange(i.mag, Pow2(40), Pow2Minus1(48))
            THEN Push(t, TV("NegInt6", i.mag))
         ELSE IF InRange(i.mag, Pow2(32), Pow2Minus1(40))
            THEN Push(t, TV("NegInt5", i.mag))
         ELSE Push(t, TV("NegInt4", i.mag))
    ELSE IF InRange(i.mag, Pow2(31), Pow2Minus1(32))
            THEN Push(t, TV("PosInt4", i.mag))
         ELSE IF InRange(i.mag, Pow2(32), Pow2Minus1(40))
            THEN Push(t, TV("PosInt5", i.mag))
         ELSE IF InRange(i.mag, Pow2(40), Pow2Minus1(48))
            THEN Push(t, TV("PosInt6", i.mag))
         ELSE IF InRange(i.mag, Pow2(48), Pow2Minus1(56))
            THEN Push(t, TV("PosInt7", i.mag))
         ELSE Push(t, TV("PosInt8", i.mag))

\* an add_bigint that keeps everything beyond i64 in the arbitrary-precision
\* form
add_bigint_no_u64(t, i) ==
    IF Fits(64, i) THEN add_i64(t, i)
    ELSE IF i.neg THEN Push(t, TV("NegativeArbitraryPrecisionInteger", i.mag))
    ELSE Push(t, TV("PositiveArbitraryPrecisionInteger", i.mag))

\* add_bigint panics when the magnitude has more than 255 bytes; the
\* actions below never offer such a value.
add_bigint(t, i) ==
    IF Fits(64, i) THEN add_i64(t, i)
    ELSE IF i.neg
    THEN IF InRange(i.mag, Pow2Plus1(63), Pow2Minus1(64))
            THEN Push(t, TV("NegInt8", i.mag))
         ELSE Push(t, TV("NegativeArbitraryPrecisionInteger", i.mag))
    ELSE IF InRange(i.mag, Pow2(63), Pow2Minus1(64))
            THEN Push(t, TV("PosInt8", i.mag))
         ELSE Push(t, TV("PositiveArbitraryPrecisionInteger", i.mag))

add_f32(t, f) == Push(t, TV("IeeeBinaryFloatingPointFloat", f))
add_f64(t, f) == Push(t, TV("IeeeBinaryFloatingPointDouble", f))
add_bool(t, b) == IF b THEN Push(t, TrueValue) ELSE Push(t, FalseValue)
add_uuid(t, u) == Push(t, TV("Rfc4122Uuid", u))

add_versionstamp(t, v) ==
    [elements |-> Append(t.elements, Versionstamp96Bit(v)),
     has_incomplete_versionstamp |-> t.has_incomplete_versionstamp \/ ~v.complete]

\* an append that pushes the other tuple as one element
append_as_element(t, t1) ==
    [elements |-> Append(t.elements, NestedTuple(t1)),
     has_incomplete_versionstamp |->
        t.has_incomplete_versionstamp \/ t1.has_incomplete_versionstamp]

\* Tuple::append
append(t, t1) ==
    [elements |-> t.elements \o t1.elements,
     has_incomplete_versionstamp |->
        t.has_incomplete_versionstamp \/ t1.has_incomplete_versionstamp]

\* a from_elements that raises the flag on any versionstamp
from_elements_any_versionstamp(elements) ==
    [elements |-> elements,
     has_incomplete_versionstamp |->
        \E k \in 1..Len(elements) :
            \/ elements[k].kind = "NestedTuple"
               /\ elements[k].t.has_incomplete_versionstamp
            \/ elements[k].kind = "Versionstamp96Bit"]

\* Tuple::from_elements
from_elements(elements) ==
    [elements |-> elements,
     has_incomplete_versionstamp |->
        \E k \in 1..Len(elements) :
            \/ elements[k].kind = "NestedTuple"
               /\ elements[k].t.has_incomplete_versionstamp
            \/ elements[k].kind = "Versionstamp96Bit" /\ ~elements[k].complete]

---------------------------------------------------------------------------
(* Serializer (element.rs, mod serializer).                                *)

null_value == <<0>>
\* a null inside a nested tuple written like a null at the top level
nested_tuple_null_value_bare == <<0>>
nested_tuple_null_value == <<0, 255>>

\* the 0x00 -> 0x00 0xFF escaping shared by byte_string and unicode_string
RECURSIVE EscapeNulls(_)
EscapeNulls(b) ==
    IF b = <<>> THEN <<>>
    ELSE (IF b[1] = 0 THEN <<0, 255>> ELSE <<b[1]>>) \o EscapeNulls(Tail(b))

\* a byte_string without the escaping
byte_string_unescaped(b) == <<1>> \o b \o <<0>>
byte_string(b) == <<1>> \o EscapeNulls(b) \o <<0>>
unicode_string(s) == <<2>> \o EscapeNulls(s) \o <<0>>

\* BigInt::to_bytes_be: the magnitude, a single zero byte for zero
to_bytes_be(b) == IF b = <<>> THEN <<0>> ELSE b

\* u8::try_from(val.len()).unwrap() cannot fail for the magnitudes add_bigint
\* and the parser let through (at most 255 bytes)
negative_arbitrary_precision_integer(b) ==
    <<11, 255 - Len(to_bytes_be(b))>> \o neg_u8_slice_into_vec(to_bytes_be(b))

\* the unsigned type that holds the magnitude of NegIntN / PosIntN, in
\* bytes: u8, u16, u32, u32, u64, u64, u64, u64
IntWidth(n) == CASE n = 1 -> 1 [] n = 2 -> 2 [] n \in 3..4 -> 4 [] OTHER -> 8

\* serializer::neg_int_n: the type code 0x14 - n, then the last n bytes of
\* u.to_be_bytes(), complemented
neg_int(n, u) ==
    <<20 - n>> \o neg_u8_slice_into_vec(SliceFrom(to_be_bytes(u, IntWidth(n)), IntWidth(n) - n))

int_zero == <<20>>

\* serializer::pos_int_n: the type code 0x14 + n, then the last n bytes of
\* u.to_be_bytes()
pos_int(n, u) == <<20 + n>> \o SliceFrom(to_be_bytes(u, IntWidth(n)), IntWidth(n) - n)

positive_arbitrary_precision_integer(b) ==
    <<29, Len(to_bytes_be(b))>> \o to_bytes_be(b)

\* an encoding that flips the sign bit only, whatever the sign
FloatBytes_sign_only(x) ==
    <<(x[1] + 128) % 256>> \o Tail(x)

\* f.is_sign_negative() is the top bit of the first big-endian byte
FloatBytes(x) ==
    IF x[1] >= 128 THEN [k \in 1..Len(x) |-> 255 - x[k]]
    ELSE <<x[1] + 128>> \o Tail(x)

ieee_binary_floating_point_float(f) == <<32>> \o FloatBytes(f)
ieee_binary_floating_point_double(f) == <<33>> \o FloatBytes(f)
false_value == <<38>>
true_value == <<39>>
rfc_4122_uuid(u) == <<48>> \o u
versionstamp_96_bit(v) == <<51>> \o VersionstampGetBytes(v)

\* The match of to_bytes and of serializer::nested_tuple: the two tables
\* differ only in the encoding of NullValue.
RECURSIVE SerializeValue(_, _)
RECURSIVE SerializeElements(_, _)

nested_tuple(t) == <<5>> \o SerializeElements(t.elements, TRUE) \o <<0>>

SerializeValue(x, nested) ==
    CASE x.kind = "NullValue" ->
            IF nested THEN nested_tuple_null_value ELSE null_value
      [] x.kind = "ByteString" -> byte_string(x.b)
      [] x.kind = "UnicodeString" -> unicode_string(x.b)
      [] x.kind = "NestedTuple" -> nested_tuple(x.t)
      [] x.kind = "NegativeArbitraryPrecisionInteger" ->
            negative_arbitrary_precision_integer(x.b)
      [] x.kind = "NegInt8" -> neg_int(8, x.b)
      [] x.kind = "NegInt7" -> neg_int(7, x.b)
      [] x.kind = "NegInt6" -> neg_int(6, x.b)
      [] x.kind = "NegInt5" -> neg_int(5, x.b)
      [] x.kind = "NegInt4" -> neg_int(4, x.b)
      [] x.kind = "NegInt3" -> neg_int(3, x.b)
      [] x.kind = "NegInt2" -> neg_int(2, x.b)
      [] x.kind = "NegInt1" -> neg_int(1, x.b)
      [] x.kind = "IntZero" -> int_zero
      [] x.kind = "PosInt1" -> pos_int(1, x.b)
      [] x.kind = "PosInt2" -> pos_int(2, x.b)
      [] x.kind = "PosInt3" -> pos_int(3, x.b)
      [] x.kind = "PosInt4" -> pos_int(4, x.b)
      [] x.kind = "PosInt5" -> pos_int(5, x.b)
      [] x.kind = "PosInt6" -> pos_int(6, x.b)
      [] x.kind = "PosInt7" -> pos_int(7, x.b)
      [] x.kind = "PosInt8" -> pos_int(8, x.b)
      [] x.kind = "PositiveArbitraryPrecisionInteger" ->
            positive_arbitrary_precision_integer(x.b)
      [] x.kind = "IeeeBinaryFloatingPointFloat" ->
            ieee_binary_floating_point_float(x.b)
      [] x.kind = "IeeeBinaryFloatingPointDouble" ->
            ieee_binary_floating_point_double(x.b)
      [] x.kind = "FalseValue" -> false_value
      [] x.kind = "TrueValue" -> true_value
      [] x.kind = "Rfc4122Uuid" -> rfc_4122_uuid(x.b)
      [] x.kind = "Versionstamp96Bit" -> versionstamp_96_bit(VersionstampOf(x))

SerializeElements(elements, nested) ==
    IF elements = <<>> THEN <<>>
    ELSE SerializeValue(elements[1], nested) \o SerializeElements(Tail(elements), nested)

\* Tuple::pack, which is element::to_bytes
pack(t) == SerializeElements(t.elements, FALSE)

---------------------------------------------------------------------------
(* Parser (element.rs, mod parser and utils::extract_unpacked_bytes).      *)
(* A parser result is Ok((rest, value)), Err(_) or a panic of the thread.  *)

POk(rest, val) == [st |-> "ok", rest |-> rest, val |-> val]
PErr == [st |-> "err", rest |-> <<>>, val |-> NullValue]
PPanic == [st |-> "panic", rest |-> <<>>, val |-> NullValue]

\* String::from_utf8(..).is_ok(): well-formed UTF-8 (Unicode table 3-7)
Cont(s, k) == Len(s) >= k /\ s[k] >= 128 /\ s[k] <= 191

RECURSIVE IsUtf8(_)
IsUtf8(s) ==
    IF s = <<>> THEN TRUE
    ELSE IF s[1] <= 127 THEN IsUtf8(Tail(s))
    ELSE IF s[1] >= 194 /\ s[1] <= 223
        THEN Cont(s, 2) /\ IsUtf8(SliceFrom(s, 2))
    ELSE IF s[1] >= 224 /\ s[1] <= 239
        THEN /\ Cont(s, 2) /\ Cont(s, 3)
             /\ (s[1] = 224 => s[2] >= 160)
             /\ (s[1] = 237 => s[2] <= 159)
             /\ IsUtf8(SliceFrom(s, 3))
    ELSE IF s[1] >= 240 /\ s[1] <= 244
        THEN /\ Cont(s, 2) /\ Cont(s, 3) /\ Cont(s, 4)
             /\ (s[1] = 240 => s[2] >= 144)
             /\ (s[1] = 244 => s[2] <= 143)
             /\ IsUtf8(SliceFrom(s, 4))
    ELSE FALSE

\* position (1-based) of the first 0x00 of i, 0 when there is none
RECURSIVE FindNull(_, _)
FindNull(i, k) ==
    IF k > Len(i) THEN 0
    ELSE IF i[k] = 0 THEN k
    ELSE FindNull(i, k + 1)

\* utils::extract_unpacked_bytes: the loop, res_output being the accumulator
RECURSIVE ExtractLoop(_, _)
ExtractLoop(i, res_output) ==
    LET z == FindNull(i, 1) IN
    IF z = 0 THEN PErr                       \* take_until fails
    ELSE LET o1 == SubSeq(i, 1, z - 1)
             i1 == SliceFrom(i, z - 1)
         IN IF Len(i1) >= 2
            THEN IF i1[2] = 255
                 THEN ExtractLoop(SliceFrom(i1, 2), res_output \o o1 \o <<0>>)
                 ELSE POk(SliceFrom(i1, 1), ByteString(res_output \o o1))
            ELSE POk(SliceFrom(i1, 1), ByteString(res_output \o o1))

\* an extraction that ends at the first 0x00, whatever follows it
extract_unpacked_bytes_first(i) ==
    LET z == FindNull(i, 1) IN
    IF z = 0 THEN PErr
    ELSE POk(SliceFrom(i, z), ByteString(SubSeq(i, 1, z - 1)))

extract_unpacked_bytes(i) == ExtractLoop(i, <<>>)

\* sequence::preceded(tag(code), map(take(n), f)): i[0] is the type code
\* here, so the tag always matches
TakeAfterTag(i, n) ==
    IF Len(i) < 1 + n THEN PErr
    ELSE POk(SliceFrom(i, 1 + n), ByteString(SubSeq(i, 2, 1 + n)))

\* parser::neg_int_n and parser::pos_int_n: preceded(tag(code), map(take(n),
\* f)), where f puts the n bytes at the end of a buffer of the width of the
\* unsigned type (filled with 0xFF for a negative, 0x00 for a positive),
\* complements it for a negative, and reads the number
parse_int(n, neg, i) ==
    LET r == TakeAfterTag(i, n) IN
    IF r.st # "ok" THEN r
    ELSE LET val == [k \in 1..(IntWidth(n) - n) |-> IF neg THEN 255 ELSE 0] \o r.val.b
             kind == IF neg
                     THEN <<"NegInt1", "NegInt2", "NegInt3", "NegInt4",
                            "NegInt5", "NegInt6", "NegInt7", "NegInt8">>[n]
                     ELSE <<"PosInt1", "PosInt2", "PosInt3", "PosInt4",
                            "PosInt5", "PosInt6", "PosInt7", "PosInt8">>[n]
         IN POk(r.rest,
                TV(kind, from_be_bytes(IF neg THEN neg_u8_slice_into_vec(val) ELSE val)))

parse_byte_string(i) == extract_unpacked_bytes(SliceFrom(i, 1))

parse_unicode_string(i) ==
    LET r == extract_unpacked_bytes(SliceFrom(i, 1)) IN
    IF r.st # "ok" THEN r
    ELSE IF IsUtf8(r.val.b) THEN POk(r.rest, UnicodeString(r.val.b))
    ELSE PErr

parse_negative_arbitrary_precision_integer(i) ==
    IF Len(i) < 2 THEN PErr
    ELSE LET len == 255 - i[2]
             i2 == SliceFrom(i, 2)
         IN IF Len(i2) < len THEN PErr
            ELSE POk(SliceFrom(i2, len),
                     TV("NegativeArbitraryPrecisionInteger",
                        from_be_bytes(neg_u8_slice_into_vec(SubSeq(i2, 1, len)))))

\* multi::length_data(be_u8)
parse_positive_arbitrary_precision_integer(i) ==
    IF Len(i) < 2 THEN PErr
    ELSE LET len == i[2]
             i2 == SliceFrom(i, 2)
         IN IF Len(i2) < len THEN PErr
            ELSE POk(SliceFrom(i2, len),
                     TV("PositiveArbitraryPrecisionInteger",
                        from_be_bytes(SubSeq(i2, 1, len))))

\* the closure of the two float parsers: x[0] & 0x80 == 0 marks a negative
ParseFloat(i, kind, n) ==
    LET r == TakeAfterTag(i, n) IN
    IF r.st # "ok" THEN r
    ELSE LET x == r.val.b
         IN POk(r.rest,
                TV(kind, IF x[1] < 128 THEN [k \in 1..n |-> 255 - x[k]]
                         ELSE <<x[1] - 128>> \o Tail(x)))

parse_rfc_4122_uuid(i) ==
    LET r == TakeAfterTag(i, 16) IN
    IF r.st # "ok" THEN r ELSE POk(r.rest, TV("Rfc4122Uuid", r.val.b))

parse_versionstamp_96_bit(i) ==
    LET r == TakeAfterTag(i, 12) IN
    IF r.st # "ok" THEN r
    ELSE POk(r.rest, Versionstamp96Bit(VersionstampFromBytes(r.val.b)))

RECURSIVE parse_nested_tuple(_)
RECURSIVE NestedTupleLoop(_, _)

\* The arms of the two match tables that are the same in parser::tuple and
\* parser::nested_tuple: every type code but 0x00.  "none" is the `_` arm.
ParseByCode(i) ==
    CASE i[1] = 1 -> parse_byte_string(i)
      [] i[1] = 2 -> parse_unicode_string(i)
      [] i[1] = 5 -> parse_nested_tuple(i)
      [] i[1] = 11 -> parse_negative_arbitrary_precision_integer(i)
      [] i[1] \in 12..19 -> parse_int(20 - i[1], TRUE, i)
      [] i[1] = 20 -> POk(SliceFrom(i, 1), IntZero)
      [] i[1] \in 21..28 -> parse_int(i[1] - 20, FALSE, i)
      [] i[1] = 29 -> parse_positive_arbitrary_precision_integer(i)
      [] i[1] = 32 -> ParseFloat(i, "IeeeBinaryFloatingPointFloat", 4)
      [] i[1] = 33 -> ParseFloat(i, "IeeeBinaryFloatingPointDouble", 8)
      [] i[1] = 38 -> POk(SliceFrom(i, 1), FalseValue)
      [] i[1] = 39 -> POk(SliceFrom(i, 1), TrueValue)
      [] i[1] = 48 -> parse_rfc_4122_uuid(i)
      [] i[1] = 51 -> parse_versionstamp_96_bit(i)
      [] OTHER -> PErr

\* the loop of parser::nested_tuple; i1 is what follows the 0x05 so far
NestedTupleLoop(i1, res) ==
    IF Len(i1) = 0 THEN PErr                 \* premature ending: ErrorKind::Eof
    ELSE IF Len(i1) = 1 /\ i1[1] = 0
        THEN POk(SliceFrom(i1, 1), NestedTuple(from_elements(res)))
    ELSE IF Len(i1) < 2 THEN PPanic          \* i1[0..=1] on a one-byte slice
    ELSE IF i1[1] = 0 /\ i1[2] = 255
        THEN NestedTupleLoop(SliceFrom(i1, 2), Append(res, NullValue))
    ELSE IF i1[1] = 0
        THEN POk(SliceFrom(i1, 1), NestedTuple(from_elements(res)))
    ELSE LET r == ParseByCode(i1)
         IN IF r.st # "ok" THEN r
            ELSE NestedTupleLoop(r.rest, Append(res, r.val))

parse_nested_tuple(i) == NestedTupleLoop(SliceFrom(i, 1), <<>>)

\* the loop of parser::tuple
RECURSIVE TupleLoop(_, _)
TupleLoop(i, res) ==
    IF Len(i) = 0 THEN POk(i, NestedTuple(from_elements(res)))
    ELSE LET r == IF i[1] = 0 THEN POk(SliceFrom(i, 1), NullValue) ELSE ParseByCode(i)
         IN IF r.st # "ok" THEN r
            ELSE TupleLoop(r.rest, Append(res, r.val))

parse_tuple(i) == TupleLoop(i, <<>>)

\* element::from_bytes, which is Tuple::from_bytes: Ok(tuple),
\* Err(TUPLE_FROM_BYTES), or the panic that escaped the parser
from_bytes(b) ==
    LET r == parse_tuple(b) IN
    IF r.st = "ok" THEN [st |-> "ok", t |-> r.val.t]
    ELSE IF r.st = "panic" THEN [st |-> "panic", t |-> TupleNew]
    ELSE [st |-> "TUPLE_FROM_BYTES", t |-> TupleNew]

---------------------------------------------------------------------------
(* Incomplete-versionstamp locator (element.rs, mod versionstamp).         *)

\* enum QueryForIncompleteVersionstamp
NotFound(u) == [q |-> "NotFound", u |-> u]
Found(u) == [q |-> "Found", u |-> u]
MultipleFound == [q |-> "MultipleFound", u |-> 0]

\* a fold that keeps the first incomplete versionstamp and ignores the rest
QueryFold_first(acc, x) ==
    CASE acc.q = "NotFound" ->
            (CASE x.q = "NotFound" -> NotFound(acc.u + x.u)
               [] x.q = "Found" -> Found(acc.u + x.u)
               [] x.q = "MultipleFound" -> MultipleFound)
      [] acc.q = "Found" -> Found(acc.u)
      [] acc.q = "MultipleFound" -> MultipleFound

\* the closure handed to fold, in both functions
QueryFold(acc, x) ==
    CASE acc.q = "NotFound" ->
            (CASE x.q = "NotFound" -> NotFound(acc.u + x.u)
               [] x.q = "Found" -> Found(acc.u + x.u)
               [] x.q = "MultipleFound" -> MultipleFound)
      [] acc.q = "Found" ->
            (CASE x.q = "NotFound" -> Found(acc.u)
               [] x.q = "Found" -> MultipleFound
               [] x.q = "MultipleFound" -> MultipleFound)
      [] acc.q = "MultipleFound" -> MultipleFound

RECURSIVE query_for_incomplete_versionstamp_nested_tuple(_)
RECURSIVE QueryElements(_, _, _)

\* the closure handed to map: the two functions differ only in the length
\* they count for NullValue
QueryValue(tv, nested) ==
    CASE tv.kind = "NestedTuple" ->
            query_for_incomplete_versionstamp_nested_tuple(tv.t)
      [] tv.kind = "Versionstamp96Bit" ->
            IF tv.complete
            THEN NotFound(Len(versionstamp_96_bit(VersionstampOf(tv))))
            ELSE Found(1)
      [] OTHER -> NotFound(Len(SerializeValue(tv, nested)))

\* .map(..).fold(NotFound(0), ..) over the elements, from the left
QueryElements(elements, nested, acc) ==
    IF elements = <<>> THEN acc
    ELSE QueryElements(Tail(elements), nested,
                       QueryFold(acc, QueryValue(elements[1], nested)))

query_for_incomplete_versionstamp_nested_tuple(t) ==
    QueryElements(t.elements, TRUE, NotFound(0))

\* Ok(u) or one of the two errors
query_for_incomplete_versionstamp(t) ==
    LET q == QueryElements(t.elements, FALSE, NotFound(0)) IN
    CASE q.q = "NotFound" ->
            [st |-> "TUPLE_PACK_WITH_VERSIONSTAMP_NOT_FOUND", u |-> 0]
      [] q.q = "Found" -> [st |-> "ok", u |-> q.u]
      [] q.q = "MultipleFound" ->
            [st |-> "TUPLE_PACK_WITH_VERSIONSTAMP_MULTIPLE_FOUND", u |-> 0]


---------------------------------------------------------------------------
(* Tuple::pack_with_versionstamp and Tuple::range (tuple.rs).              *)

\* BufMut::put_u32_le
put_u32_le(n) ==
    <<n % 256, (n \div 256) % 256, (n \div 65536) % 256, (n \div 16777216) % 256>>

\* The u32 conversion of the index cannot fail here: keys of the model are
\* far shorter than 2^32 bytes.
pack_with_versionstamp(t, prefix) ==
    IF t.has_incomplete_versionstamp
    THEN LET x == query_for_incomplete_versionstamp(t) IN
         IF x.st = "ok"
         THEN [st |-> "ok",
               bytes |-> prefix \o pack(t) \o put_u32_le(x.u + Len(prefix))]
         ELSE [st |-> x.st, bytes |-> <<>>]
    ELSE [st |-> "TUPLE_PACK_WITH_VERSIONSTAMP_NOT_FOUND", bytes |-> <<>>]

\* a range that begins at the key of the tuple itself
range_closed(t, prefix) ==
    IF t.has_incomplete_versionstamp
    THEN [st |-> "panic", begin |-> <<>>, end |-> <<>>]
    ELSE [st |-> "ok",
          begin |-> prefix \o pack(t),
          end |-> prefix \o pack(t) \o <<255>>]

\* Range::new(begin, end), or the panic on an incomplete versionstamp
range(t, prefix) ==
    IF t.has_incomplete_versionstamp
    THEN [st |-> "panic", begin |-> <<>>, end |-> <<>>]
    ELSE [st |-> "ok",
          begin |-> prefix \o pack(t) \o <<0>>,
          end |-> prefix \o pack(t) \o <<255>>]

\* Ord for Tuple: the order of the packed bytes
cmp(t, other) ==
    IF BytesLess(pack(t), pack(other)) THEN "Less"
    ELSE IF BytesLess(pack(other), pack(t)) THEN "Greater"
    ELSE "Equal"

---------------------------------------------------------------------------
(* Typed integer accessors (tuple.rs).  A result is Ok(value) or           *)
(* Err(TUPLE_GET).                                                         *)

GOk(neg, mag) == [st |-> "ok", v |-> SInt(neg, mag)]
GErr == [st |-> "TUPLE_GET", v |-> SInt(FALSE, <<>>)]

\* self.elements.get(index) is Some
HasIndex(t, index) == index >= 0 /\ index < Len(t.elements)
ElementAt(t, index) == t.elements[index + 1]

\* a get_i8 that hands out whatever magnitude the one-byte variants hold
get_i8_unchecked(t, index) ==
    IF ~HasIndex(t, index) THEN GErr
    ELSE LET x == ElementAt(t, index) IN
         CASE x.kind = "NegInt1" -> GOk(x.b # <<>>, x.b)
           [] x.kind = "IntZero" -> GOk(FALSE, <<>>)
           [] x.kind = "PosInt1" -> GOk(FALSE, x.b)
           [] OTHER -> GErr

get_i8(t, index) ==
    IF ~HasIndex(t, index) THEN GErr
    ELSE LET x == ElementAt(t, index) IN
         CASE x.kind = "NegInt1" /\ MagLe(x.b, Pow2(7)) -> GOk(x.b # <<>>, x.b)
           [] x.kind = "IntZero" -> GOk(FALSE, <<>>)
           [] x.kind = "PosInt1" /\ MagLe(x.b, Pow2Minus1(7)) -> GOk(FALSE, x.b)
           [] OTHER -> GErr

get_i16(t, index) ==
    IF get_i8(t, index).st = "ok" THEN get_i8(t, index)
    ELSE IF ~HasIndex(t, index) THEN GErr
    ELSE LET x == ElementAt(t, index) IN
         CASE x.kind = "NegInt2" /\ InRange(x.b, Pow2(8), Pow2(15)) -> GOk(TRUE, x.b)
           [] x.kind = "NegInt1" /\ InRange(x.b, Pow2Plus1(7), Pow2Minus1(8)) -> GOk(TRUE, x.b)
           [] x.kind = "PosInt1" /\ InRange(x.b, Pow2(7), Pow2Minus1(8)) -> GOk(FALSE, x.b)
           [] x.kind = "PosInt2" /\ InRange(x.b, Pow2(8), Pow2Minus1(15)) -> GOk(FALSE, x.b)
           [] OTHER -> GErr

get_i32(t, index) ==
    IF get_i16(t, index).st = "ok" THEN get_i16(t, index)
    ELSE IF ~HasIndex(t, index) THEN GErr
    ELSE LET x == ElementAt(t, index) IN
         CASE x.kind = "NegInt4" /\ InRange(x.b, Pow2(24), Pow2(31)) -> GOk(TRUE, x.b)
           [] x.kind = "NegInt3" /\ InRange(x.b, Pow2(16), Pow2Minus1(24)) -> GOk(TRUE, x.b)
           [] x.kind = "NegInt2" /\ InRange(x.b, Pow2Plus1(15), Pow2Minus1(16)) -> GOk(TRUE, x.b)
           [] x.kind = "PosInt2" /\ InRange(x.b, Pow2(15), Pow2Minus1(16)) -> GOk(FALSE, x.b)
           [] x.kind = "PosInt3" /\ InRange(x.b, Pow2(16), Pow2Minus1(24)) -> GOk(FALSE, x.b)
           [] x.kind = "PosInt4" /\ InRange(x.b, Pow2(24), Pow2Minus1(31)) -> GOk(FALSE, x.b)
           [] OTHER -> GErr

get_i64(t, index) ==
    IF get_i32(t, index).st = "ok" THEN get_i32(t, index)
    ELSE IF ~HasIndex(t, index) THEN GErr
    ELSE LET x == ElementAt(t, index) IN
         CASE x.kind = "NegInt8"
                /\ InRange(x.b, Pow2(56), Pow2(63)) -> GOk(TRUE, x.b)
           [] x.kind = "NegInt7"
                /\ InRange(x.b, Pow2(48), Pow2Minus1(56)) -> GOk(TRUE, x.b)
           [] x.kind = "NegInt6"
                /\ InRange(x.b, Pow2(40), Pow2Minus1(48)) -> GOk(TRUE, x.b)
           [] x.kind = "NegInt5"
                /\ InRange(x.b, Pow2(32), Pow2Minus1(40)) -> GOk(TRUE, x.b)
           [] x.kind = "NegInt4"
                /\ InRange(x.b, Pow2Plus1(31), Pow2Minus1(32)) -> GOk(TRUE, x.b)
           [] x.kind = "PosInt4"
                /\ InRange(x.b, Pow2(31), Pow2Minus1(32)) -> GOk(FALSE, x.b)
           [] x.kind = "PosInt5"
                /\ InRange(x.b, Pow2(32), Pow2Minus1(40)) -> GOk(FALSE, x.b)
           [] x.kind = "PosInt6"
                /\ InRange(x.b, Pow2(40), Pow2Minus1(48)) -> GOk(FALSE, x.b)
           [] x.kind = "PosInt7"
                /\ InRange(x.b, Pow2(48), Pow2Minus1(56)) -> GOk(FALSE, x.b)
           [] x.kind = "PosInt8"
                /\ InRange(x.b, Pow2(56), Pow2Minus1(63)) -> GOk(FALSE, x.b)
           [] OTHER -> GErr

\* NegativeArbitraryPrecisionInteger(i) gives i * -1, which is zero (and
\* not negative) for a zero magnitude
get_bigint(t, index) ==
    IF get_i64(t, index).st = "ok" THEN get_i64(t, index)
    ELSE IF ~HasIndex(t, index) THEN GErr
    ELSE LET x == ElementAt(t, index) IN
         CASE x.kind = "NegativeArbitraryPrecisionInteger" -> GOk(x.b # <<>>, x.b)
           [] x.kind = "NegInt8"
                /\ InRange(x.b, Pow2Plus1(63), Pow2Minus1(64)) -> GOk(TRUE, x.b)
           [] x.kind = "PosInt8"
                /\ InRange(x.b, Pow2(63), Pow2Minus1(64)) -> GOk(FALSE, x.b)
           [] x.kind = "PositiveArbitraryPrecisionInteger" -> GOk(FALSE, x.b)
           [] OTHER -> GErr

---------------------------------------------------------------------------
(* The other typed accessors (tuple.rs): get_null, get_bytes_ref,          *)
(* get_string_ref, get_tuple_ref, get_f32, get_f64, get_bool,              *)
(* get_uuid_ref, get_versionstamp_ref.  Each is                            *)
(*   self.elements.get(index).and_then(|x| match x { <its variants> =>     *)
(*   Some(..), _ => None }).ok_or_else(Tuple::tuple_get_error)             *)
(* and they differ in the variants matched only.  The value handed out is  *)
(* held as the element it was taken from.                                  *)

\* the variants each accessor matches
Variants ==
    [get_null |-> {"NullValue"},
     get_bytes_ref |-> {"ByteString"},
     get_string_ref |-> {"UnicodeString"},
     get_tuple_ref |-> {"NestedTuple"},
     get_f32 |-> {"IeeeBinaryFloatingPointFloat"},
     get_f64 |-> {"IeeeBinaryFloatingPointDouble"},
     get_bool |-> {"FalseValue", "TrueValue"},
     get_uuid_ref |-> {"Rfc4122Uuid"},
     get_versionstamp_ref |-> {"Versionstamp96Bit"}]

\* an accessor that hands out a default value where the variant differs
get_ref_or_default(name, t, index) ==
    IF ~HasIndex(t, index) THEN [st |-> "TUPLE_GET", x |-> NullValue]
    ELSE IF ElementAt(t, index).kind \in Variants[name]
    THEN [st |-> "ok", x |-> ElementAt(t, index)]
    ELSE [st |-> "ok", x |-> NullValue]

get_ref(name, t, index) ==
    IF ~HasIndex(t, index) THEN [st |-> "TUPLE_GET", x |-> NullValue]
    ELSE IF ElementAt(t, index).kind \in Variants[name]
    THEN [st |-> "ok", x |-> ElementAt(t, index)]
    ELSE [st |-> "TUPLE_GET", x |-> NullValue]

---------------------------------------------------------------------------
(* Key utilities (key_util.rs).  A result is Ok(key) or                    *)
(* Err(TUPLE_KEY_UTIL_STRINC_ERROR).                                       *)

\* an rstrip_xff that gives back its input when it holds a byte other than
\* 0xFF
rstrip_xff_kept(input) ==
    IF \A k \in 1..Len(input) : input[k] = 255
    THEN [st |-> "TUPLE_KEY_UTIL_STRINC_ERROR", bytes |-> <<>>]
    ELSE [st |-> "ok", bytes |-> input]

\* the while loop walks i down from the last index while input[i] is 0xFF
\* (i is 0-based in the source and 1-based here)
rstrip_xff(input) ==
    LET RECURSIVE Walk(_)
        Walk(i) == IF i >= 1 /\ input[i] = 255 THEN Walk(i - 1) ELSE i
        i == Walk(Len(input))
    IN IF input = <<>> THEN [st |-> "TUPLE_KEY_UTIL_STRINC_ERROR", bytes |-> <<>>]
       ELSE IF i < 1 THEN [st |-> "TUPLE_KEY_UTIL_STRINC_ERROR", bytes |-> <<>>]
       ELSE [st |-> "ok", bytes |-> SubSeq(input, 1, i)]

\* an strinc that does not strip the trailing 0xFF bytes
strinc_unstripped(prefix) ==
    IF \A k \in 1..Len(prefix) : prefix[k] = 255
    THEN [st |-> "TUPLE_KEY_UTIL_STRINC_ERROR", bytes |-> <<>>]
    ELSE [st |-> "ok", bytes |-> SubSeq(prefix, 1, Len(prefix) - 1)
                                   \o <<(prefix[Len(prefix)] + 1) % 256>>]

\* x[non_ff_byte_index] + 1 is a u8 addition: it overflows on 0xFF, which
\* panics in a build with overflow checks
strinc(prefix) ==
    LET r == rstrip_xff(prefix)
        x == r.bytes
    IN IF r.st # "ok" THEN r
       ELSE IF x[Len(x)] = 255 THEN [st |-> "panic", bytes |-> <<>>]
       ELSE [st |-> "ok", bytes |-> SubSeq(x, 1, Len(x) - 1) \o <<x[Len(x)] + 1>>]

---------------------------------------------------------------------------
(* Subspace (subspace.rs).                                                 *)

Subspace_new(prefix_bytes) ==
    [raw_prefix_has_incomplete_versionstamp |-> FALSE, raw_prefix |-> prefix_bytes]

\* a subspace() that takes the flag of the tuple alone
subspace_flag_of_tuple(s, tuple) ==
    [raw_prefix_has_incomplete_versionstamp |-> tuple.has_incomplete_versionstamp,
     raw_prefix |-> s.raw_prefix \o pack(tuple)]

\* Subspace::subspace
subspace(s, tuple) ==
    [raw_prefix_has_incomplete_versionstamp |->
        s.raw_prefix_has_incomplete_versionstamp \/ tuple.has_incomplete_versionstamp,
     raw_prefix |-> s.raw_prefix \o pack(tuple)]

\* Subspace::pack_with_versionstamp
Subspace_pack_with_versionstamp(s, tuple) ==
    IF s.raw_prefix_has_incomplete_versionstamp
    THEN [st |-> "SUBSPACE_PACK_WITH_VERSIONSTAMP_PREFIX_INCOMPLETE", bytes |-> <<>>]
    ELSE pack_with_versionstamp(tuple, s.raw_prefix)

---------------------------------------------------------------------------
(* Inputs offered to the operations.                                       *)

\* byte strings over 0x00, 0x01, 0xFF of at most two bytes: empty, embedded
\* 0x00, 0x00 followed by 0xFF, 0xFF alone, ...
BytesInputs ==
    {<<>>} \cup {<<x>> : x \in {0, 1, 255}} \cup {<<x, y>> : x, y \in {0, 1, 255}}

\* UTF-8 texts: "", "a", "\u{0}", "a\u{0}", "\u{0}a", "é"
StringInputs == {<<>>, <<97>>, <<0>>, <<97, 0>>, <<0, 97>>, <<195, 169>>}

\* every magnitude of w bytes that sits on a boundary of the encoding:
\* 2^(8w-8), 2^(8w-1)-1, 2^(8w-1), 2^(8w-1)+1, 2^(8w)-1
Boundary(w) ==
    LET zeros == [k \in 1..(w - 1) |-> 0]
        ones == [k \in 1..(w - 1) |-> 255]
    IN { <<1>> \o zeros, <<127>> \o ones, <<128>> \o zeros,
         IF w = 1 THEN <<129>>
         ELSE <<128>> \o [k \in 1..(w - 1) |-> IF k = w - 1 THEN 1 ELSE 0],
         <<255>> \o ones }

Magnitudes == UNION { Boundary(w) : w \in 1..MaxIntBytes }

IntInputs ==
    {SInt(FALSE, <<>>)} \cup {SInt(neg, m) : neg \in BOOLEAN, m \in Magnitudes}

\* f32: -inf, -MAX, -1.0, the negative subnormal nearest zero, -0.0, +0.0,
\* the positive subnormal nearest zero, 1.0, 1.5, MAX, +inf, and two NaNs
F32Inputs ==
    {<<255, 128, 0, 0>>, <<255, 127, 255, 255>>, <<191, 128, 0, 0>>,
     <<128, 0, 0, 1>>, <<128, 0, 0, 0>>, <<0, 0, 0, 0>>, <<0, 0, 0, 1>>,
     <<63, 128, 0, 0>>, <<63, 192, 0, 0>>, <<127, 127, 255, 255>>,
     <<127, 128, 0, 0>>, <<127, 192, 0, 0>>, <<255, 192, 0, 0>>}
\* f64: -inf, -1.0, the negative subnormal nearest zero, -0.0, +0.0, the
\* positive subnormal nearest zero, 1.0, 1.5, +inf, and a NaN
F64Inputs ==
    {<<255, 240, 0, 0, 0, 0, 0, 0>>, <<191, 240, 0, 0, 0, 0, 0, 0>>,
     <<128, 0, 0, 0, 0, 0, 0, 1>>, <<128, 0, 0, 0, 0, 0, 0, 0>>,
     <<0, 0, 0, 0, 0, 0, 0, 0>>, <<0, 0, 0, 0, 0, 0, 0, 1>>,
     <<63, 240, 0, 0, 0, 0, 0, 0>>, <<63, 248, 0, 0, 0, 0, 0, 0>>,
     <<127, 240, 0, 0, 0, 0, 0, 0>>, <<127, 248, 0, 0, 0, 0, 0, 0>>}

\* ffffffff-ba5e-ba11-0000-00005ca1ab1e
UuidInputs == {<<255, 255, 255, 255, 186, 94, 186, 17, 0, 0, 0, 0, 92, 161, 171, 30>>}

AllFF == [k \in 1..VERSIONSTAMP_TR_VERSION_LEN |-> 255]

\* an incomplete versionstamp, a complete one, and a complete one whose
\* transaction version is ten 0xFF bytes
VersionstampInputs ==
    { VersionstampIncomplete(0),
      VersionstampComplete(<<1, 2, 3, 4, 5, 6, 7, 8, 9, 10>>, 657),
      VersionstampComplete(AllFF, 0) }

\* key prefixes handed to pack_with_versionstamp and range: none, "fo"
PrefixInputs == {<<>>, <<102, 111>>}

\* bytes a raw buffer is made of: the type codes 0x00, 0x01, 0x02, 0x05,
\* 0x0B, 0x14, 0x15, 0x1D, the unassigned 0x34, a payload byte 0x61, and
\* the bytes that read as lengths and escapes, 0xFE and 0xFF
RawBytes == {0, 1, 2, 5, 11, 20, 21, 29, 52, 97, 254, 255}

\* The inputs with which the shape of tuples (several elements, nesting,
\* concatenation) is explored.  Every other input above is explored as the
\* only element of a tuple.
ShapeInputs ==
    [bytes |-> {<<0>>, <<0, 255>>}, strings |-> {},
     bools |-> {}, f32 |-> {}, f64 |-> {}, uuids |-> {},
     ints |-> {SInt(TRUE, <<1, 0>>)},
     versionstamps |-> VersionstampInputs]

\* The inputs with which the order of two tuples is explored.
OrderInputs ==
    [bytes |-> {<<>>, <<0>>}, strings |-> {<<97>>, <<97, 0>>},
     bools |-> BOOLEAN, f32 |-> {}, f64 |-> {}, uuids |-> {},
     ints |-> {SInt(TRUE, <<1>>), SInt(FALSE, <<1>>)},
     versionstamps |-> {}]

\* the 12-byte buffers given to Versionstamp::from_bytes: a transaction
\* version of ten 0xFF bytes, or of those with one byte replaced by 00 or
\* FE, or of 01 .. 0A, and a user version over 00, 01 and FF
VersionstampBuffers ==
    {tr \o uv :
        tr \in {AllFF, <<1, 2, 3, 4, 5, 6, 7, 8, 9, 10>>}
               \cup {[AllFF EXCEPT ![k] = v] :
                        k \in 1..VERSIONSTAMP_TR_VERSION_LEN, v \in {0, 254}},
        uv \in [1..VERSIONSTAMP_USER_VERSION_LEN -> {0, 1, 255}]}

\* the bytes of the keys given to strinc
KeyBytes == {0, 254, 255}

\* the elements these inputs make
ValuesOf(core) ==
    {NullValue}
    \cup {ByteString(b) : b \in core.bytes}
    \cup {UnicodeString(s) : s \in core.strings}
    \cup {IF b THEN TrueValue ELSE FalseValue : b \in core.bools}
    \cup {add_bigint(TupleNew, i).elements[1] : i \in core.ints}
    \cup {Versionstamp96Bit(v) : v \in core.versionstamps}

\* the tuples handed to add_tuple: the empty one and those of one element
TupleInputs(values) == {TupleNew} \cup {from_elements(<<v>>) : v \in values}

ShapeValues == ValuesOf(ShapeInputs)
OrderValues == ValuesOf(OrderInputs)

---------------------------------------------------------------------------
(* State.                                                                  *)

VARIABLES
    tup,     \* the two Tuple values the caller owns: tup[1], tup[2]
    last,    \* the integer most recently appended to tup[1] and by which add_*
    input,   \* a raw byte buffer, as read from the store
    out,     \* what the most recent read-only call returned
    sub,     \* the Subspace the caller holds
    chain,   \* history: the tuples given to subspace() on the way to sub
    net,     \* the process-wide FDB network: the statics of fdb.rs, the
             \* fdb-network-thread, and the calls made so far
    handle,  \* per native handle (one FDBDatabase, one FDBTransaction): the
             \* Arc behind its clones, the clones, and the destroy calls
    txn,     \* one call of FdbDatabase::run or FdbDatabase::read: where it
             \* is, its locals, its result, and what it has awaited so far
    stream,  \* one FdbStreamKeyValue: its RangeResultStateMachine, the keys
             \* of the store it reads, and what it has fetched and yielded
    fut      \* one FdbFuture: its fields, the native future behind it, the
             \* poll in progress, and the wakers registered and woken

\* the state of the tuple layer, and the state of the client
tuples == <<tup, last, input, out, sub, chain>>
client == <<net, handle, txn, stream, fut>>
vars == <<tup, last, input, out, sub, chain, net, handle, txn, stream, fut>>

NoLast == [op |-> "none", i |-> SInt(FALSE, <<>>)]
NoOut == [op |-> "none", st |-> "", bytes |-> <<>>, bytes2 |-> <<>>,
          t |-> TupleNew, v |-> SInt(FALSE, <<>>), x |-> NullValue, arg |-> <<>>]

\* static mut FDB_NETWORK_THREAD / FDB_NETWORK_STARTED / FDB_NETWORK_STOPPED
\* as the process starts.  FDB_NETWORK_THREAD is TRUE for Some(JoinHandle);
\* thread is the fdb-network-thread itself: "none" before it is spawned,
\* "running" inside fdb_run_network(), and the result it finished with
\* after that; pc is where the calling thread is; log is the history of
\* the calls that ended, each with how it ended.
NetworkStatics ==
    [FDB_NETWORK_STARTED |-> FALSE, FDB_NETWORK_STOPPED |-> FALSE,
     FDB_NETWORK_THREAD |-> FALSE, thread |-> "none", pc |-> "idle",
     log |-> <<>>]

\* the two handle types with the same Drop: FdbDatabase and FdbTransaction
Handles == {"FdbDatabase", "FdbTransaction"}

MaxClones == 3

\* FdbDatabase::new / FdbTransaction::new around Some(Arc::new(ptr)): one
\* value, strong count 1, nothing destroyed.  A clone is "unused" before it
\* is made, "live" while it is held, "err" inside Drop::drop between a
\* failed Arc::try_unwrap and drop(at), and "dropped" after Drop::drop.
HandleNew ==
    [strong |-> 1, destroyed |-> 0,
     clones |-> [c \in 1..MaxClones |-> IF c = 1 THEN "live" ELSE "unused"]]

\* before FdbDatabase::run / FdbDatabase::read is called
NotCalled ==
    [op |-> "none", pc |-> "idle", ret_val |-> <<>>, e |-> "", result |-> <<>>,
     awaited |-> <<>>]

\* before get_range is called
NoStream == [range_result_state_machine_state |-> "none"]

\* FdbFuture::new: callback_set false, waker Some(Arc::new(AtomicWaker)).
\* atomic_waker is the Waker the AtomicWaker holds (0: none); ready and
\* callback belong to the native future: whether it is ready, and whether
\* its callback is "unset", "set" or "fired"; pc is where the poll in
\* progress is, cx its waker, ret what the last poll returned, polls the
\* number of polls, awaited the waker of the last poll that returned
\* Pending, woken the wakers woken.
FdbFuture_new ==
    [callback_set |-> FALSE, waker |-> TRUE, atomic_waker |-> 0,
     ready |-> FALSE, callback |-> "unset",
     pc |-> "idle", cx |-> 0, ret |-> "", polls |-> 0, awaited |-> 0,
     woken |-> {}]

Init ==
    /\ tup = [w \in 1..2 |-> TupleNew]
    /\ last = NoLast
    /\ input = <<>>
    /\ out = NoOut
    /\ sub = Subspace_new(<<>>)
    /\ chain = <<>>
    /\ net = NetworkStatics
    /\ handle = [h \in Handles |-> HandleNew]
    /\ txn = NotCalled
    /\ stream = NoStream
    /\ fut = FdbFuture_new

\* The exploration budget.  An element counts 1 when it is a nested tuple
\* (plus what it holds) or one of the values of `values`, and MaxSize
\* otherwise, so that any other value is the only element of its tuple.
RECURSIVE Size(_, _)
RECURSIVE SizeElements(_, _)
SizeElements(elements, values) ==
    IF elements = <<>> THEN 0
    ELSE (IF elements[1].kind = "NestedTuple" THEN 1 + Size(elements[1].t, values)
          ELSE IF elements[1] \in values THEN 1
          ELSE MaxSize)
         + SizeElements(Tail(elements), values)
Size(t, values) == SizeElements(t.elements, values)

Room(values) == Size(tup[1], values) + Size(tup[2], values) < MaxSize

\* what is offered to add_*: every input while both tuples are empty, the
\* inputs of `core` while there is room, nothing after that
Offered(all, core, values) ==
    IF tup[1] = TupleNew /\ tup[2] = TupleNew THEN all
    ELSE IF Room(values) THEN core
    ELSE {}

\* a mutation of tup[w]: the new value, and what was appended if it was an
\* integer appended to tup[1]
Mutate(w, t, l) ==
    /\ tup' = [tup EXCEPT ![w] = t]
    /\ last' = IF w = 1 THEN l ELSE last
    /\ out' = NoOut
    /\ UNCHANGED <<input, sub, chain, client>>

AddNull(w) == Mutate(w, add_null(tup[w]), NoLast)
AddBytes(w, b) == Mutate(w, add_bytes(tup[w], b), NoLast)
AddString(w, s) == Mutate(w, add_string(tup[w], s), NoLast)
AddBool(w, b) == Mutate(w, add_bool(tup[w], b), NoLast)
AddF32(w, f) == Mutate(w, add_f32(tup[w], f), NoLast)
AddF64(w, f) == Mutate(w, add_f64(tup[w], f), NoLast)
AddUuid(w, u) == Mutate(w, add_uuid(tup[w], u), NoLast)
AddVersionstamp(w, v) == Mutate(w, add_versionstamp(tup[w], v), NoLast)

\* the argument of add_iN is a value of type iN
AddI8(w, i) ==
    Fits(8, i) /\ Mutate(w, add_i8(tup[w], i), [op |-> "add_i8", i |-> i])
AddI16(w, i) ==
    Fits(16, i) /\ Mutate(w, add_i16(tup[w], i), [op |-> "add_i16", i |-> i])
AddI32(w, i) ==
    Fits(32, i) /\ Mutate(w, add_i32(tup[w], i), [op |-> "add_i32", i |-> i])
AddI64(w, i) ==
    Fits(64, i) /\ Mutate(w, add_i64(tup[w], i), [op |-> "add_i64", i |-> i])
\* add_bigint panics on a magnitude of more than 255 bytes
AddBigint(w, i) ==
    Len(i.mag) <= 255 /\ Mutate(w, add_bigint(tup[w], i), [op |-> "add_bigint", i |-> i])

\* tup[w].add_tuple(t1), t1 a tuple made for the call
AddTuple(w, t1) == Mutate(w, add_tuple(tup[w], t1), NoLast)

\* tup[w].add_tuple(t1), t1 the caller's other tuple: it is moved into the
\* nested element, and the caller's variable starts over as Tuple::new()
AddTupleOwn(w) ==
    /\ tup' = [tup EXCEPT ![w] = add_tuple(tup[w], tup[3 - w]), ![3 - w] = TupleNew]
    /\ last' = IF w = 1 THEN NoLast ELSE last
    /\ out' = NoOut
    /\ UNCHANGED <<input, sub, chain, client>>

\* tup[w].append(t1): likewise
Append_(w) ==
    /\ tup[3 - w].elements # <<>>
    /\ tup' = [tup EXCEPT ![w] = append(tup[w], tup[3 - w]), ![3 - w] = TupleNew]
    /\ last' = IF w = 1 THEN NoLast ELSE last
    /\ out' = NoOut
    /\ UNCHANGED <<input, sub, chain, client>>

\* read-only calls on tup[1]
Query(o) == out' = o /\ UNCHANGED <<tup, last, input, sub, chain, client>>

Pack == Query([NoOut EXCEPT !.op = "pack", !.bytes = pack(tup[1])])

\* Tuple::from_bytes(b)
FromBytes(b) ==
    LET r == from_bytes(b)
    IN Query([NoOut EXCEPT !.op = "from_bytes", !.st = r.st, !.t = r.t, !.bytes = b])

PackWithVersionstamp(prefix) ==
    LET r == pack_with_versionstamp(tup[1], prefix)
    IN Query([NoOut EXCEPT !.op = "pack_with_versionstamp", !.st = r.st,
                           !.bytes = r.bytes, !.arg = prefix])

Range_(prefix) ==
    LET r == range(tup[1], prefix)
    IN Query([NoOut EXCEPT !.op = "range", !.st = r.st, !.bytes = r.begin,
                           !.bytes2 = r.end, !.arg = prefix])

Cmp == Query([NoOut EXCEPT !.op = "cmp", !.st = cmp(tup[1], tup[2])])

GetI8(index) ==
    LET r == get_i8(tup[1], index)
    IN Query([NoOut EXCEPT !.op = "get_i8", !.st = r.st, !.v = r.v, !.arg = index])
GetI16(index) ==
    LET r == get_i16(tup[1], index)
    IN Query([NoOut EXCEPT !.op = "get_i16", !.st = r.st, !.v = r.v, !.arg = index])
GetI32(index) ==
    LET r == get_i32(tup[1], index)
    IN Query([NoOut EXCEPT !.op = "get_i32", !.st = r.st, !.v = r.v, !.arg = index])
GetI64(index) ==
    LET r == get_i64(tup[1], index)
    IN Query([NoOut EXCEPT !.op = "get_i64", !.st = r.st, !.v = r.v, !.arg = index])
GetBigint(index) ==
    LET r == get_bigint(tup[1], index)
    IN Query([NoOut EXCEPT !.op = "get_bigint", !.st = r.st, !.v = r.v, !.arg = index])

\* tup[1].get_null(index) .. tup[1].get_versionstamp_ref(index)
GetRef(name, index) ==
    LET r == get_ref(name, tup[1], index)
    IN Query([NoOut EXCEPT !.op = name, !.st = r.st, !.x = r.x, !.arg = index])

\* one more byte arrives in the raw buffer
PushByte(b) ==
    /\ Len(input) < MaxInputLen
    /\ input' = Append(input, b)
    /\ out' = NoOut
    /\ UNCHANGED <<tup, last, sub, chain, client>>

\* sub = Subspace::new(prefix_bytes)
SubspaceNew(prefix_bytes) ==
    /\ sub' = Subspace_new(prefix_bytes)
    /\ chain' = <<>>
    /\ out' = NoOut
    /\ UNCHANGED <<tup, last, input, client>>

\* sub = sub.subspace(&tup[1])
SubspaceSubspace ==
    /\ Len(chain) < MaxChain
    /\ sub' = subspace(sub, tup[1])
    /\ chain' = Append(chain, tup[1])
    /\ out' = NoOut
    /\ UNCHANGED <<tup, last, input, client>>

\* sub.pack_with_versionstamp(&tup[1])
SubspacePackWithVersionstamp ==
    LET r == Subspace_pack_with_versionstamp(sub, tup[1])
    IN Query([NoOut EXCEPT !.op = "Subspace::pack_with_versionstamp", !.st = r.st,
                           !.bytes = r.bytes, !.arg = sub.raw_prefix])

\* Versionstamp::from_bytes(b)
VersionstampFrom(b) ==
    Query([NoOut EXCEPT !.op = "Versionstamp::from_bytes", !.st = "ok",
                        !.x = Versionstamp96Bit(VersionstampFromBytes(b)),
                        !.bytes = b])

\* key_util::strinc(input)
Strinc ==
    LET r == strinc(input)
    IN Query([NoOut EXCEPT !.op = "strinc", !.st = r.st, !.bytes = r.bytes,
                           !.arg = input])

---------------------------------------------------------------------------
(* Spec: tuples are built, nested and concatenated; the first is packed,   *)
(* decoded, packed with a versionstamp, and its range is taken.            *)

\* every way to append one element to tup[w], within the budget
AddAny(w, core, values) ==
    \/ (Room(values) /\ AddNull(w))
    \/ \E b \in Offered(BytesInputs, core.bytes, values) : AddBytes(w, b)
    \/ \E s \in Offered(StringInputs, core.strings, values) : AddString(w, s)
    \/ \E b \in Offered(BOOLEAN, core.bools, values) : AddBool(w, b)
    \/ \E f \in Offered(F32Inputs, core.f32, values) : AddF32(w, f)
    \/ \E f \in Offered(F64Inputs, core.f64, values) : AddF64(w, f)
    \/ \E u \in Offered(UuidInputs, core.uuids, values) : AddUuid(w, u)
    \/ \E v \in Offered(VersionstampInputs, core.versionstamps, values) :
          AddVersionstamp(w, v)
    \/ \E i \in Offered(IntInputs, core.ints, values) : AddI8(w, i)
    \/ \E i \in Offered(IntInputs, core.ints, values) : AddI16(w, i)
    \/ \E i \in Offered(IntInputs, core.ints, values) : AddI32(w, i)
    \/ \E i \in Offered(IntInputs, core.ints, values) : AddI64(w, i)
    \/ \E i \in Offered(IntInputs, core.ints, values) : AddBigint(w, i)
    \/ \E t1 \in TupleInputs(values) :
          /\ Size(tup[1], values) + Size(tup[2], values) + 1 + Size(t1, values) <= MaxSize
          /\ AddTuple(w, t1)
    \/ (Room(values) /\ AddTupleOwn(w))
    \/ Append_(w)

Next ==
    \/ \E w \in 1..2 : AddAny(w, ShapeInputs, ShapeValues)
    \/ Pack
    \/ (out.op = "pack" /\ FromBytes(out.bytes))
    \/ \E prefix \in PrefixInputs : PackWithVersionstamp(prefix)
    \/ \E prefix \in PrefixInputs : Range_(prefix)

Spec == Init /\ [][Next]_vars

---------------------------------------------------------------------------
(* Properties of Spec.                                                     *)

\* the Versionstamp values a tuple contains, at any depth
RECURSIVE VersionstampsIn(_)
VersionstampsIn(t) ==
    UNION { IF t.elements[k].kind = "Versionstamp96Bit"
               THEN {VersionstampOf(t.elements[k])}
            ELSE IF t.elements[k].kind = "NestedTuple"
               THEN VersionstampsIn(t.elements[k].t)
            ELSE {} : k \in 1..Len(t.elements) }

\* two tuples hold the same elements: same variants, same payloads (floats
\* by bit pattern), same versionstamps including their completeness, and
\* nested tuples likewise
RECURSIVE SameElements(_, _)
SameElements(a, b) ==
    /\ Len(a.elements) = Len(b.elements)
    /\ \A k \in 1..Len(a.elements) :
          LET x == a.elements[k]
              y == b.elements[k]
          IN /\ x.kind = y.kind
             /\ x.b = y.b
             /\ x.complete = y.complete
             /\ x.user_version = y.user_version
             /\ SameElements(x.t, y.t)

\* out holds from_bytes(tup[1].pack())
Decoded == out.op = "from_bytes" /\ out.bytes = pack(tup[1])

\* C1 as stated: whenever tup[1] contains no incomplete versionstamp,
\* from_bytes(tup[1].pack()) succeeds and returns the elements of tup[1].
C1_RoundTrip_AsStated ==
    (Decoded /\ \A v \in VersionstampsIn(tup[1]) : v.complete)
        => (out.st = "ok" /\ SameElements(out.t, tup[1]))

\* C1 amended: whenever tup[1] contains no incomplete versionstamp and no
\* complete versionstamp whose transaction version is ten 0xFF bytes,
\* from_bytes(tup[1].pack()) succeeds and returns the elements of tup[1].
C1_RoundTrip ==
    (Decoded /\ \A v \in VersionstampsIn(tup[1]) : v.complete /\ v.tr_version # AllFF)
        => (out.st = "ok" /\ SameElements(out.t, tup[1]))

\* a tuple of a nested tuple holding a null and of a complete versionstamp
\* has been packed and decoded back to the same elements
C1_Witness ==
    /\ Decoded
    /\ out.st = "ok"
    /\ Len(tup[1].elements) = 2
    /\ \E k \in 1..2 : /\ tup[1].elements[k].kind = "NestedTuple"
                       /\ tup[1].elements[k].t.elements = <<NullValue>>
    /\ \E v \in VersionstampsIn(tup[1]) : v.complete /\ v.tr_version # AllFF
    /\ \A v \in VersionstampsIn(tup[1]) : v.complete /\ v.tr_version # AllFF
    /\ SameElements(out.t, tup[1])

\* is_complete() of the versionstamps of a tuple, in the order of the
\* packed bytes
RECURSIVE Completeness(_)
Completeness(elements) ==
    IF elements = <<>> THEN <<>>
    ELSE (IF elements[1].kind = "Versionstamp96Bit" THEN <<elements[1].complete>>
          ELSE IF elements[1].kind = "NestedTuple"
             THEN Completeness(elements[1].t.elements)
          ELSE <<>>)
         \o Completeness(Tail(elements))

CompletenessKept ==
    /\ out.st = "ok"
    /\ ~out.t.has_incomplete_versionstamp
    /\ Completeness(out.t.elements) = Completeness(tup[1].elements)

\* C29 as stated: for tup[1] with has_incomplete_versionstamp() false, the
\* tuple decoded from tup[1].pack() reports has_incomplete_versionstamp()
\* false and each of its versionstamps is as complete as the one of tup[1]
\* it was decoded from.
C29_CompletenessKept_AsStated ==
    (Decoded /\ ~tup[1].has_incomplete_versionstamp) => CompletenessKept

\* C29 amended: the same, for tup[1] that holds no versionstamp whose
\* transaction version is ten 0xFF bytes.
C29_CompletenessKept ==
    (/\ Decoded
     /\ ~tup[1].has_incomplete_versionstamp
     /\ \A v \in VersionstampsIn(tup[1]) : v.tr_version # AllFF) => CompletenessKept

\* a complete versionstamp inside a nested tuple has been decoded as
\* complete
C29_Witness ==
    /\ Decoded
    /\ Len(tup[1].elements) = 1
    /\ tup[1].elements[1].kind = "NestedTuple"
    /\ Completeness(tup[1].elements) = <<TRUE>>
    /\ Completeness(out.t.elements) = <<TRUE>>
    /\ ~out.t.has_incomplete_versionstamp

\* the number of incomplete Versionstamp values a tuple contains, nested
\* tuples of every depth included
RECURSIVE CountIncomplete(_)
RECURSIVE CountIncompleteElements(_)
CountIncompleteElements(elements) ==
    IF elements = <<>> THEN 0
    ELSE (IF elements[1].kind = "Versionstamp96Bit"
             THEN (IF elements[1].complete THEN 0 ELSE 1)
          ELSE IF elements[1].kind = "NestedTuple"
             THEN CountIncomplete(elements[1].t)
          ELSE 0)
         + CountIncompleteElements(Tail(elements))
CountIncomplete(t) == CountIncompleteElements(t.elements)

\* out holds tup[1].pack_with_versionstamp(out.arg)
PackedWithVersionstamp == out.op = "pack_with_versionstamp"

\* the key returned by pack_with_versionstamp without its 4-byte trailer, and
\* the little-endian number in the trailer
KeyOf(bytes) == SubSeq(bytes, 1, Len(bytes) - 4)
OffsetOf(bytes) ==
    LET n == Len(bytes)
    IN bytes[n - 3] + 256 * bytes[n - 2] + 65536 * bytes[n - 1]
       + 16777216 * (bytes[n] % 128)

\* C3: whenever pack_with_versionstamp(prefix) succeeds, the number k in the
\* trailer points at the transaction-version field: counting the bytes of
\* the key from 0, byte k-1 is the type code 0x33 and bytes k .. k+9 are the
\* ten 0xFF bytes, at whatever depth the incomplete versionstamp sits.
C3_OffsetPointsAtField ==
    (PackedWithVersionstamp /\ out.st = "ok") =>
        LET key == KeyOf(out.bytes)
            k == OffsetOf(out.bytes)
        IN /\ k >= 1
           /\ k + VERSIONSTAMP_TR_VERSION_LEN <= Len(key)
           /\ key[k] = 51
           /\ \A j \in 1..VERSIONSTAMP_TR_VERSION_LEN : key[k + j] = 255

\* the only incomplete versionstamp of tup[1] is one of its own elements,
\* and out holds what pack_with_versionstamp returned for it
TopLevelPacked ==
    /\ PackedWithVersionstamp
    /\ CountIncomplete(tup[1]) = 1
    /\ \E k \in 1..Len(tup[1].elements) :
          tup[1].elements[k].kind = "Versionstamp96Bit" /\ ~tup[1].elements[k].complete

\* C16: when the unique incomplete versionstamp is a top-level element,
\* pack_with_versionstamp(prefix) returns prefix, then pack(), then the
\* 4-byte little-endian number prefix.len() + the encoded length of the
\* elements before the versionstamp + 1.
C16_TopLevelOffset ==
    TopLevelPacked =>
        LET k == CHOOSE k \in 1..Len(tup[1].elements) :
                     /\ tup[1].elements[k].kind = "Versionstamp96Bit"
                     /\ ~tup[1].elements[k].complete
            before == SerializeElements(SubSeq(tup[1].elements, 1, k - 1), FALSE)
        IN /\ out.st = "ok"
           /\ KeyOf(out.bytes) = out.arg \o pack(tup[1])
           /\ Len(out.bytes) = Len(out.arg) + Len(pack(tup[1])) + 4
           /\ OffsetOf(out.bytes) = Len(out.arg) + Len(before) + 1

\* C5: pack_with_versionstamp returns the not-found error when tup[1]
\* contains no incomplete versionstamp, succeeds when it contains exactly
\* one, and returns the multiple-found error when it contains two or more,
\* counting the versionstamps of nested tuples of every depth.
C5_CountDecides ==
    PackedWithVersionstamp =>
        LET n == CountIncomplete(tup[1])
        IN /\ (n = 0) = (out.st = "TUPLE_PACK_WITH_VERSIONSTAMP_NOT_FOUND")
           /\ (n = 1) = (out.st = "ok")
           /\ (n >= 2) = (out.st = "TUPLE_PACK_WITH_VERSIONSTAMP_MULTIPLE_FOUND")

\* pack_with_versionstamp has refused a tuple whose two incomplete
\* versionstamps sit at different depths
C5_Witness ==
    /\ PackedWithVersionstamp
    /\ out.st = "TUPLE_PACK_WITH_VERSIONSTAMP_MULTIPLE_FOUND"
    /\ CountIncomplete(tup[1]) = 2
    /\ \E k \in 1..Len(tup[1].elements) :
          /\ tup[1].elements[k].kind = "NestedTuple"
          /\ CountIncomplete(tup[1].elements[k].t) = 1

\* C6: after any sequence of add_*, add_versionstamp, add_tuple and append,
\* has_incomplete_versionstamp() is true exactly when some versionstamp the
\* tuple contains, directly or in a nested tuple of any depth, is incomplete.
C6_FlagIsExact ==
    \A w \in 1..2 :
        tup[w].has_incomplete_versionstamp = (CountIncomplete(tup[w]) > 0)

\* the flag is set on a tuple whose only incomplete versionstamp came in
\* with a nested tuple, next to a complete versionstamp of its own
C6_Witness ==
    /\ tup[1].has_incomplete_versionstamp
    /\ \E k \in 1..Len(tup[1].elements) :
          /\ tup[1].elements[k].kind = "NestedTuple"
          /\ CountIncomplete(tup[1].elements[k].t) = 1
    /\ \E k \in 1..Len(tup[1].elements) :
          /\ tup[1].elements[k].kind = "Versionstamp96Bit"
          /\ tup[1].elements[k].complete
    /\ CountIncomplete(tup[1]) = 1

\* every byte-string element of a is a byte-string element of b with the
\* same bytes at the same position, nested tuples included
RECURSIVE ByteStringsKept(_, _)
ByteStringsKept(a, b) ==
    /\ Len(a.elements) = Len(b.elements)
    /\ \A k \in 1..Len(a.elements) :
          LET x == a.elements[k]
              y == b.elements[k]
          IN CASE x.kind = "ByteString" -> y.kind = "ByteString" /\ y.b = x.b
               [] x.kind = "NestedTuple" ->
                      y.kind = "NestedTuple" /\ ByteStringsKept(x.t, y.t)
               [] OTHER -> TRUE

\* C8: a tuple holding a byte string, with 0x00 bytes or 0x00 followed by
\* 0xFF in it, decodes from its packed form to exactly that byte string,
\* also when further elements follow it or when it sits in a nested tuple.
C8_ByteStringsRoundTrip ==
    Decoded => (out.st = "ok" /\ ByteStringsKept(tup[1], out.t))

\* the byte string 0x00 0xFF sits in a nested tuple that another element
\* follows, and has been decoded back
C8_Witness ==
    /\ Decoded
    /\ out.st = "ok"
    /\ Len(tup[1].elements) = 2
    /\ tup[1].elements[1].kind = "NestedTuple"
    /\ tup[1].elements[1].t.elements = <<ByteString(<<0, 255>>)>>
    /\ out.t.elements[1].t.elements = <<ByteString(<<0, 255>>)>>

\* out holds tup[1].range(out.arg)
Ranged == out.op = "range"

\* the key out.arg ++ u.pack() lies in the range held by out
InRangeOf(u) ==
    LET key == out.arg \o pack(u)
    IN ~BytesLess(key, out.bytes) /\ BytesLess(key, out.bytes2)

\* u consists of the elements of t followed by at least one more
Extends(u, t) ==
    /\ Len(u.elements) > Len(t.elements)
    /\ SameElements([u EXCEPT !.elements = SubSeq(@, 1, Len(t.elements))], t)

RangeIsAsStated ==
    /\ out.st = "ok"
    /\ out.bytes = out.arg \o pack(tup[1]) \o <<0>>
    /\ out.bytes2 = out.arg \o pack(tup[1]) \o <<255>>
    /\ InRangeOf(tup[2]) = Extends(tup[2], tup[1])

\* C7 as stated: for t without incomplete versionstamp, t.range(p) is
\* [p ++ t.pack() ++ 0x00, p ++ t.pack() ++ 0xFF), and p ++ u.pack() lies
\* in it exactly when u is t's elements followed by at least one more.
C7_Range_AsStated ==
    (Ranged /\ CountIncomplete(tup[1]) = 0) => RangeIsAsStated

\* C7 amended: the same, for t that contains no versionstamp whose
\* transaction version is ten 0xFF bytes, incomplete or complete.
C7_Range ==
    (Ranged /\ \A v \in VersionstampsIn(tup[1]) : v.tr_version # AllFF)
        => RangeIsAsStated

\* the range of a one-element tuple has been taken under a prefix, and the
\* other tuple, which extends it by a null, has its key at the range's begin
C7_Witness ==
    /\ Ranged
    /\ out.st = "ok"
    /\ out.arg # <<>>
    /\ Len(tup[1].elements) = 1
    /\ tup[2].elements = Append(tup[1].elements, NullValue)
    /\ out.arg \o pack(tup[2]) = out.bytes
    /\ InRangeOf(tup[2])

---------------------------------------------------------------------------
(* SpecOrd: two tuples are built, then compared.                           *)

NextOrd ==
    \/ \E w \in 1..2 : AddAny(w, OrderInputs, OrderValues)
    \/ Cmp

SpecOrd == Init /\ [][NextOrd]_vars

\* the kinds of integer elements, and the integer an element holds
NegKinds ==
    {"NegativeArbitraryPrecisionInteger", "NegInt8", "NegInt7", "NegInt6",
     "NegInt5", "NegInt4", "NegInt3", "NegInt2", "NegInt1"}
PosKinds ==
    {"PosInt1", "PosInt2", "PosInt3", "PosInt4", "PosInt5", "PosInt6",
     "PosInt7", "PosInt8", "PositiveArbitraryPrecisionInteger"}
IsInt(x) == x.kind \in NegKinds \cup {"IntZero"} \cup PosKinds
IntOf(x) == SInt(x.kind \in NegKinds, x.b)

\* x < y as numbers
SIntLess(x, y) ==
    IF x.neg THEN (~y.neg \/ MagLess(y.mag, x.mag))
    ELSE (~y.neg /\ MagLess(x.mag, y.mag))

\* the class within which two elements are comparable
ClassOf(x) ==
    IF IsInt(x) THEN "Int"
    ELSE IF x.kind \in {"FalseValue", "TrueValue"} THEN "Bool"
    ELSE x.kind
ComparableClasses == {"NullValue", "ByteString", "UnicodeString", "Int", "Bool", "NestedTuple"}

\* element-wise order of two element sequences: the first position at which
\* they differ decides, and a sequence precedes every sequence extending it
RECURSIVE Comparable(_, _)
Comparable(a, b) ==
    \/ a = <<>>
    \/ b = <<>>
    \/ /\ ClassOf(a[1]) = ClassOf(b[1])
       /\ ClassOf(a[1]) \in ComparableClasses
       /\ (a[1].kind = "NestedTuple" => Comparable(a[1].t.elements, b[1].t.elements))
       /\ Comparable(Tail(a), Tail(b))

RECURSIVE Precedes(_, _)
ElementPrecedes(x, y) ==
    CASE ClassOf(x) = "Int" -> SIntLess(IntOf(x), IntOf(y))
      [] ClassOf(x) = "Bool" -> x.kind = "FalseValue" /\ y.kind = "TrueValue"
      [] ClassOf(x) = "NestedTuple" -> Precedes(x.t.elements, y.t.elements)
      [] ClassOf(x) \in {"ByteString", "UnicodeString"} -> BytesLess(x.b, y.b)
      [] OTHER -> FALSE
Precedes(a, b) ==
    IF a = <<>> THEN b # <<>>
    ELSE IF b = <<>> THEN FALSE
    ELSE IF ElementPrecedes(a[1], b[1]) THEN TRUE
    ELSE IF ElementPrecedes(b[1], a[1]) THEN FALSE
    ELSE Precedes(Tail(a), Tail(b))

\* out holds tup[1].cmp(&tup[2]), the comparison of the packed bytes
Compared == out.op = "cmp"

\* C2: for two tuples whose elements are pairwise of comparable kinds, the
\* packed bytes of the first are smaller exactly when the first precedes
\* the second element-wise (integers by value, byte strings and text by
\* their bytes, false before true, nested tuples recursively, a tuple
\* before its extensions).
C2_OrderPreserved ==
    (Compared /\ Comparable(tup[1].elements, tup[2].elements)) =>
        ((out.st = "Less") = Precedes(tup[1].elements, tup[2].elements))

\* two tuples that differ inside a nested tuple, the first nested tuple
\* being a proper prefix of the second, have been compared
C2_Witness ==
    /\ Compared
    /\ out.st = "Less"
    /\ Len(tup[1].elements) = 1 /\ Len(tup[2].elements) = 1
    /\ tup[1].elements[1].kind = "NestedTuple"
    /\ tup[2].elements[1].kind = "NestedTuple"
    /\ tup[1].elements[1].t.elements = <<>>
    /\ tup[2].elements[1].t.elements = <<NullValue>>

---------------------------------------------------------------------------
(* SpecInt: an integer is appended to each tuple by one of the five add_*  *)
(* operations, to tup[1] possibly after nulls; the tuples are compared     *)
(* and the integer is read back through each accessor.                     *)

AddInt(w, i) ==
    \/ AddI8(w, i)
    \/ AddI16(w, i)
    \/ AddI32(w, i)
    \/ AddI64(w, i)
    \/ AddBigint(w, i)

\* tup[1] is built first and read back; then tup[2] is built, and the two
\* are compared
NextInt ==
    \/ (last = NoLast /\ Len(tup[1].elements) < MaxIndex /\ AddNull(1))
    \/ \E i \in IntInputs : last = NoLast /\ AddInt(1, i)
    \/ \E i \in IntInputs :
          /\ Len(tup[1].elements) = 1 /\ last # NoLast /\ tup[2] = TupleNew
          /\ AddInt(2, i)
    \/ (tup[2] # TupleNew /\ Cmp)
    \/ \E index \in 0..MaxIndex :
          /\ tup[2] = TupleNew
          /\ \/ GetI8(index)
             \/ GetI16(index)
             \/ GetI32(index)
             \/ GetI64(index)
             \/ GetBigint(index)

SpecInt == Init /\ [][NextInt]_vars

\* C9: for two integers x < y, the packed encoding of x is smaller than the
\* packed encoding of y under unsigned byte comparison, whatever their
\* signs and their byte widths, arbitrary precision included.
C9_IntegerOrder ==
    (/\ Compared
     /\ Len(tup[1].elements) = 1 /\ IsInt(tup[1].elements[1])
     /\ Len(tup[2].elements) = 1 /\ IsInt(tup[2].elements[1])
     /\ SIntLess(IntOf(tup[1].elements[1]), IntOf(tup[2].elements[1])))
        => out.st = "Less"

\* a negative integer of nine bytes has been compared with a less negative
\* integer of eight bytes
C9_Witness ==
    /\ Compared
    /\ out.st = "Less"
    /\ tup[1].elements = <<TV("NegativeArbitraryPrecisionInteger", <<1, 0, 0, 0, 0, 0, 0, 0, 0>>)>>
    /\ tup[2].elements = <<TV("NegInt8", Pow2Minus1(64))>>

\* whether x lies in the range of the type the accessor returns
FitsAccessor(op, x) ==
    CASE op = "get_i8" -> Fits(8, x)
      [] op = "get_i16" -> Fits(16, x)
      [] op = "get_i32" -> Fits(32, x)
      [] op = "get_i64" -> Fits(64, x)
      [] op = "get_bigint" -> TRUE

Accessors == {"get_i8", "get_i16", "get_i32", "get_i64", "get_bigint"}

\* out holds what an accessor returned for the integer that was appended last
ReadBack ==
    /\ out.op \in Accessors
    /\ last.op # "none"
    /\ out.arg = Len(tup[1].elements) - 1

\* C10: after an integer x is appended with add_i8, add_i16, add_i32,
\* add_i64 or add_bigint, each of get_i8 .. get_bigint at that index
\* returns exactly x when x lies in the range of the requested width, and
\* the accessor error otherwise.
C10_AccessorsExact ==
    ReadBack =>
        IF FitsAccessor(out.op, last.i)
        THEN out.st = "ok" /\ out.v = last.i
        ELSE out.st = "TUPLE_GET"

\* -32768, appended with add_bigint after a null, has been read back with
\* get_i16
C10_Witness ==
    /\ ReadBack
    /\ last = [op |-> "add_bigint", i |-> SInt(TRUE, Pow2(15))]
    /\ out.op = "get_i16"
    /\ out.arg = 1
    /\ out.st = "ok"
    /\ out.v = SInt(TRUE, Pow2(15))

\* the add_* operation of that name, and whether it accepts i
AddBy(op, t, i) ==
    CASE op = "add_i8" -> add_i8(t, i)
      [] op = "add_i16" -> add_i16(t, i)
      [] op = "add_i32" -> add_i32(t, i)
      [] op = "add_i64" -> add_i64(t, i)
      [] op = "add_bigint" -> add_bigint(t, i)
Accepts(op, i) ==
    CASE op = "add_i8" -> Fits(8, i)
      [] op = "add_i16" -> Fits(16, i)
      [] op = "add_i32" -> Fits(32, i)
      [] op = "add_i64" -> Fits(64, i)
      [] op = "add_bigint" -> TRUE

\* tup[1] without its last element
Front == [tup[1] EXCEPT !.elements = SubSeq(@, 1, Len(@) - 1)]

\* C11: an integer packs to the same bytes whichever of add_i8, add_i16,
\* add_i32, add_i64 and add_bigint appended it, for every operation whose
\* argument type holds the value.
C11_SameBytesAnyWidth ==
    last.op # "none" =>
        \A op \in {"add_i8", "add_i16", "add_i32", "add_i64", "add_bigint"} :
            Accepts(op, last.i) => pack(AddBy(op, Front, last.i)) = pack(tup[1])

\* -128 has been appended with add_i8 after a null; add_i16 .. add_bigint
\* accept it as well
C11_Witness ==
    /\ last = [op |-> "add_i8", i |-> SInt(TRUE, <<128>>)]
    /\ pack(tup[1]) = <<0, 19, 127>>

\* the encoding of the integer most recently appended to tup[1]
LastEncoded == SerializeValue(tup[1].elements[Len(tup[1].elements)], FALSE)

\* C12: an integer is encoded in the narrowest bucket that holds its
\* magnitude: zero as the zero code, a magnitude of n <= 8 bytes as the
\* type code 0x14 + n (0x14 - n when negative) and n payload bytes, and a
\* magnitude of more than 8 bytes in the arbitrary-precision form.
C12_NarrowestBucket ==
    last.op # "none" =>
        LET n == Len(last.i.mag)
        IN IF n <= 8
           THEN /\ LastEncoded[1] = IF last.i.neg THEN 20 - n ELSE 20 + n
                /\ Len(LastEncoded) = 1 + n
           ELSE /\ LastEncoded[1] = IF last.i.neg THEN 11 ELSE 29
                /\ Len(LastEncoded) = 2 + n

\* 2^64 - 1 has been appended with add_bigint and sits in the 8-byte bucket
C12_Witness ==
    /\ last = [op |-> "add_bigint", i |-> SInt(FALSE, Pow2Minus1(64))]
    /\ LastEncoded = <<28, 255, 255, 255, 255, 255, 255, 255, 255>>

---------------------------------------------------------------------------
(* SpecParse: a raw buffer arrives byte by byte and is decoded.            *)

NextParse ==
    \/ \E b \in RawBytes : PushByte(b)
    \/ FromBytes(input)
    \/ \E b \in VersionstampBuffers : input = <<>> /\ VersionstampFrom(b)

SpecParse == Init /\ [][NextParse]_vars

\* C4: Tuple::from_bytes(b) returns a tuple or the error TUPLE_FROM_BYTES
\* as a value, and never panics: not on an unknown type code, not when the
\* input ends inside a payload, not when it ends inside a nested tuple.
C4_FromBytesReturns ==
    (out.op = "from_bytes" /\ out.bytes = input) =>
        out.st \in {"ok", "TUPLE_FROM_BYTES"}

\* C18: Versionstamp::from_bytes on a 12-byte buffer gives a versionstamp
\* that is complete exactly when one of the first 10 bytes is not 0xFF,
\* whose transaction version is the first 10 bytes and whose user version
\* is the last 2 bytes read big-endian.
C18_VersionstampFromBytes ==
    out.op = "Versionstamp::from_bytes" =>
        LET v == VersionstampOf(out.x)
            b == out.bytes
        IN /\ Len(b) = 12
           /\ v.complete = (\E k \in 1..10 : b[k] # 255)
           /\ v.tr_version = SubSeq(b, 1, 10)
           /\ v.user_version = 256 * b[11] + b[12]

\* a buffer whose only byte other than 0xFF in the first ten is the tenth
\* has been read as a complete versionstamp of user version 256
C18_Witness ==
    /\ out.op = "Versionstamp::from_bytes"
    /\ out.bytes = <<255, 255, 255, 255, 255, 255, 255, 255, 255, 254, 1, 0>>
    /\ out.x.complete
    /\ out.x.user_version = 256

---------------------------------------------------------------------------
(* SpecKey: a key arrives byte by byte and its successor is computed.      *)

NextKey ==
    \/ \E b \in KeyBytes : PushByte(b)
    \/ Strinc

SpecKey == Init /\ [][NextKey]_vars

\* out holds strinc(input)
Strinced == out.op = "strinc" /\ out.arg = input

\* p is a prefix of s
IsPrefix(p, s) == Len(p) <= Len(s) /\ SubSeq(s, 1, Len(p)) = p

\* the byte strings of up to n bytes over the bytes of KeyBytes and their
\* successors
KeysUpTo(n) ==
    UNION { [1..k -> KeyBytes \cup {b + 1 : b \in KeyBytes \ {255}}] : k \in 0..n }

\* C13: for p with at least one byte other than 0xFF, strinc(p) is p with
\* its trailing 0xFF bytes removed and its new last byte incremented, and
\* that is the smallest byte string strictly greater than every byte string
\* that has p as a prefix: every such string is below it, and every string
\* below it is at or below some string that has p as a prefix.
C13_StrincIsLeastUpperBound ==
    (Strinced /\ \E k \in 1..Len(input) : input[k] # 255) =>
        LET n == CHOOSE k \in 1..Len(input) :
                     input[k] # 255 /\ \A j \in (k + 1)..Len(input) : input[j] = 255
        IN /\ out.st = "ok"
           /\ out.bytes = [SubSeq(input, 1, n) EXCEPT ![n] = @ + 1]
           /\ \A s \in KeysUpTo(Len(input) + 1) :
                 /\ IsPrefix(input, s) => BytesLess(s, out.bytes)
                 /\ BytesLess(s, out.bytes) =>
                       \E k \in 0..Len(s) :
                           ~BytesLess(input \o [j \in 1..k |-> 255], s)

\* the successor of 00 FE FF has been computed
C13_Witness ==
    /\ Strinced
    /\ input = <<0, 254, 255>>
    /\ out.st = "ok"
    /\ out.bytes = <<0, 255>>

\* C14: strinc(p) returns the error TUPLE_KEY_UTIL_STRINC_ERROR exactly when
\* p is empty or holds only 0xFF bytes; for every other p it returns a key;
\* it never panics.
C14_StrincErrorIffAllFF ==
    Strinced =>
        IF \A k \in 1..Len(input) : input[k] = 255
        THEN out.st = "TUPLE_KEY_UTIL_STRINC_ERROR"
        ELSE out.st = "ok"

\* strinc of FF FF has returned the error
C14_Witness ==
    /\ Strinced
    /\ input = <<255, 255>>
    /\ out.st = "TUPLE_KEY_UTIL_STRINC_ERROR"

---------------------------------------------------------------------------
(* SpecFloat: one float is appended to each tuple, of the same or of       *)
(* different widths, and the tuples are compared.                          *)

NextFloat ==
    \/ \E w \in 1..2, f \in F32Inputs : tup[w] = TupleNew /\ AddF32(w, f)
    \/ \E w \in 1..2, f \in F64Inputs : tup[w] = TupleNew /\ AddF64(w, f)
    \/ (tup[1] # TupleNew /\ tup[2] # TupleNew /\ Cmp)

SpecFloat == Init /\ [][NextFloat]_vars

\* the big-endian IEEE-754 bytes x hold a NaN: all exponent bits set and a
\* mantissa other than zero (8 exponent bits in f32, 11 in f64)
IsNaN(x) ==
    /\ x[1] % 128 = 127
    /\ IF Len(x) = 4
       THEN x[2] >= 128 /\ <<x[2] % 128>> \o SliceFrom(x, 2) # <<0, 0, 0>>
       ELSE x[2] >= 240 /\ <<x[2] % 16>> \o SliceFrom(x, 2) # <<0, 0, 0, 0, 0, 0, 0>>

\* a precedes b in IEEE total order, for values that are not NaN: negative
\* before positive, positive values by magnitude, negative values by
\* magnitude reversed
TotalOrderLess(a, b) ==
    LET mag(x) == <<x[1] % 128>> \o Tail(x)
    IN IF a[1] >= 128
       THEN b[1] < 128 \/ BytesLess(mag(b), mag(a))
       ELSE b[1] < 128 /\ BytesLess(mag(a), mag(b))

FloatKinds == {"IeeeBinaryFloatingPointFloat", "IeeeBinaryFloatingPointDouble"}

\* C15: for two f32 (two f64) values neither of which is NaN, the encoding
\* of a is smaller than the encoding of b under unsigned byte comparison
\* exactly when a precedes b in IEEE total order, -0.0 before +0.0.
C15_FloatOrder ==
    (/\ Compared
     /\ Len(tup[1].elements) = 1 /\ Len(tup[2].elements) = 1
     /\ tup[1].elements[1].kind \in FloatKinds
     /\ tup[2].elements[1].kind = tup[1].elements[1].kind
     /\ ~IsNaN(tup[1].elements[1].b) /\ ~IsNaN(tup[2].elements[1].b))
        => LET a == tup[1].elements[1]
               b == tup[2].elements[1]
           IN /\ (out.st = "Less") = TotalOrderLess(a.b, b.b)
              /\ BytesLess(SerializeValue(a, FALSE), SerializeValue(b, FALSE))
                    = TotalOrderLess(a.b, b.b)

\* the f32 -0.0 has been compared with +0.0
C15_Witness ==
    /\ Compared
    /\ out.st = "Less"
    /\ tup[1].elements = <<TV("IeeeBinaryFloatingPointFloat", <<128, 0, 0, 0>>)>>
    /\ tup[2].elements = <<TV("IeeeBinaryFloatingPointFloat", <<0, 0, 0, 0>>)>>

---------------------------------------------------------------------------
(* SpecGet: tuples are built, nested and concatenated; the first is packed *)
(* and, once the second has been used up, read through every accessor.     *)

\* beyond single values of every kind, the tuples hold nulls, the byte
\* string 00 and nested tuples
NextGet ==
    \/ LET core == [ShapeInputs EXCEPT !.bytes = {<<0>>}, !.ints = {},
                                       !.versionstamps = {}]
       IN \E w \in 1..2 : AddAny(w, core, ValuesOf(core))
    \/ Pack
    \/ \E index \in 0..MaxIndex :
          /\ tup[2] = TupleNew
          /\ \/ GetI8(index)
             \/ GetI16(index)
             \/ GetI32(index)
             \/ GetI64(index)
             \/ GetBigint(index)
             \/ \E name \in DOMAIN Variants : GetRef(name, index)

SpecGet == Init /\ [][NextGet]_vars

\* out holds what an accessor returned for tup[1] at index out.arg
Got == out.op \in Accessors \cup DOMAIN Variants

\* the element at index out.arg is of the kind the accessor out.op is for
KindMatches ==
    LET x == ElementAt(tup[1], out.arg)
    IN IF out.op \in Accessors THEN IsInt(x) ELSE x.kind \in Variants[out.op]

\* C17: a typed accessor returns the error TUPLE_GET as a value when the
\* index is not smaller than size(), and when the element at the index is
\* of another kind than the accessor's; it hands out no default value.
C17_AccessorError ==
    (Got /\ (out.arg >= Len(tup[1].elements) \/ ~KindMatches)) =>
        out.st = "TUPLE_GET" /\ out.x = NullValue /\ out.v = SInt(FALSE, <<>>)

\* get_f32 has been refused on an f64 element
C17_Witness ==
    /\ Got
    /\ out.op = "get_f32"
    /\ out.arg = 0
    /\ Len(tup[1].elements) = 1
    /\ tup[1].elements[1].kind = "IeeeBinaryFloatingPointDouble"
    /\ out.st = "TUPLE_GET"

\* tup[w] keeps its elements and gains n
Grows(w, n) ==
    /\ Len(tup[w].elements') = Len(tup[w].elements) + n
    /\ SubSeq(tup[w].elements', 1, Len(tup[w].elements)) = tup[w].elements

\* C19: every add_* makes size() one larger and append(t) makes it t.size()
\* larger, each leaving the elements already there as they were at their
\* indices; pack() and the accessors leave the tuple as it was, so that a
\* second pack() returns the same bytes.
C19_OnlyGrows ==
    [][/\ \A w \in 1..2 :
            /\ Append_(w) => Grows(w, Len(tup[3 - w].elements))
            /\ AddTupleOwn(w) => Grows(w, 1)
            \* any other add_*: the caller's other tuple is not involved
            /\ (tup'[w] # tup[w] /\ tup'[3 - w] = tup[3 - w]) => Grows(w, 1)
            \* no other step touches a tuple
            /\ tup'[w] # tup[w] =>
                  \/ tup'[3 - w] = tup[3 - w]
                  \/ Append_(w) \/ AddTupleOwn(w)
                  \/ Append_(3 - w) \/ AddTupleOwn(3 - w)
       /\ out'.op \in {"pack"} \cup Accessors \cup DOMAIN Variants =>
            /\ tup' = tup
            /\ out'.op = "pack" => out'.bytes = pack(tup[1]) /\ pack(tup'[1]) = pack(tup[1])
      ]_vars

\* a tuple that grew to three elements, the last two by append, has been
\* packed
C19_Witness ==
    /\ out.op = "pack"
    /\ Len(tup[1].elements) = 3
    /\ tup[1].elements[3].kind = "ByteString"
    /\ tup[2] = TupleNew
    /\ out.bytes = pack(tup[1])

---------------------------------------------------------------------------
(* SpecSub: a subspace is made from raw bytes and narrowed by the tuples   *)
(* the caller builds; tuples are packed with a versionstamp in it.         *)

\* the tuples hold nulls, incomplete versionstamps and nested tuples
NextSub ==
    \/ LET core == [ShapeInputs EXCEPT !.bytes = {}, !.ints = {},
                       !.versionstamps = {VersionstampIncomplete(0)}]
       IN \E w \in 1..2 : AddAny(w, core, ValuesOf(core))
    \/ \E prefix_bytes \in PrefixInputs :
          /\ chain = <<>> /\ tup[1] = TupleNew /\ tup[2] = TupleNew
          /\ SubspaceNew(prefix_bytes)
    \/ SubspaceSubspace
    \/ SubspacePackWithVersionstamp

SpecSub == Init /\ [][NextSub]_vars

\* out holds sub.pack_with_versionstamp(&tup[1])
SubspacePacked == out.op = "Subspace::pack_with_versionstamp"

\* C20: when one of the tuples given to subspace() on the way to a
\* subspace had an incomplete versionstamp, pack_with_versionstamp on the
\* subspace returns the prefix-incomplete error for every tuple; otherwise
\* it returns what tuple.pack_with_versionstamp returns for the
\* subspace's raw prefix.
C20_SubspacePrefixIncomplete ==
    SubspacePacked =>
        IF \E k \in 1..Len(chain) : CountIncomplete(chain[k]) > 0
        THEN out.st = "SUBSPACE_PACK_WITH_VERSIONSTAMP_PREFIX_INCOMPLETE"
        ELSE LET r == pack_with_versionstamp(tup[1], sub.raw_prefix)
             IN out.st = r.st /\ out.bytes = r.bytes

\* a subspace narrowed first by a tuple with an incomplete versionstamp and
\* then by a tuple without has refused a tuple
C20_Witness ==
    /\ SubspacePacked
    /\ Len(chain) = 2
    /\ CountIncomplete(chain[1]) > 0
    /\ CountIncomplete(chain[2]) = 0
    /\ out.st = "SUBSPACE_PACK_WITH_VERSIONSTAMP_PREFIX_INCOMPLETE"

---------------------------------------------------------------------------
(* The network lifecycle: start_network, stop_network and the              *)
(* fdb-network-thread.                                                     *)

MaxCalls == 4

\* what a call into the native client library can return
Rc == {"ok", "err"}

Ended(n, call, how) == [n EXCEPT !.log = Append(n.log, <<call, how>>)]

\* a start_network that does not look at FDB_NETWORK_STOPPED
start_network_restartable(n, setup, spawn) ==
    IF n.FDB_NETWORK_STARTED THEN Ended(n, "start_network", "return")
    ELSE IF setup = "err" THEN Ended(n, "start_network", "panic")
    ELSE IF spawn = "err"
       THEN Ended([n EXCEPT !.FDB_NETWORK_STARTED = TRUE], "start_network", "panic")
    ELSE Ended([n EXCEPT !.FDB_NETWORK_STARTED = TRUE,
                         !.FDB_NETWORK_THREAD = TRUE,
                         !.thread = "running"], "start_network", "return")

\* start_network(), where fdb_setup_network() returns `setup` and
\* thread::Builder::spawn returns `spawn`
start_network(n, setup, spawn) ==
    IF n.FDB_NETWORK_STOPPED THEN Ended(n, "start_network", "panic")
    ELSE IF n.FDB_NETWORK_STARTED THEN Ended(n, "start_network", "return")
    ELSE IF setup = "err" THEN Ended(n, "start_network", "panic")
    ELSE IF spawn = "err"
       THEN Ended([n EXCEPT !.FDB_NETWORK_STARTED = TRUE], "start_network", "panic")
    ELSE Ended([n EXCEPT !.FDB_NETWORK_STARTED = TRUE,
                         !.FDB_NETWORK_THREAD = TRUE,
                         !.thread = "running"], "start_network", "return")

\* stop_network() up to the join, where fdb_stop_network() returns `stop`;
\* FDB_NETWORK_THREAD.take().unwrap() panics on None
stop_network(n, stop) ==
    IF ~n.FDB_NETWORK_STARTED THEN Ended(n, "stop_network", "panic")
    ELSE IF stop = "err" THEN Ended(n, "stop_network", "panic")
    ELSE IF ~n.FDB_NETWORK_THREAD THEN Ended(n, "stop_network", "panic")
    ELSE [n EXCEPT !.FDB_NETWORK_THREAD = FALSE, !.pc = "join"]

StartNetwork(setup, spawn) ==
    /\ net.pc = "idle"
    /\ Len(net.log) < MaxCalls
    /\ net' = start_network(net, setup, spawn)
    /\ UNCHANGED <<tuples, handle, txn, stream, fut>>

StopNetwork(stop) ==
    /\ net.pc = "idle"
    /\ Len(net.log) < MaxCalls
    /\ net' = stop_network(net, stop)
    /\ UNCHANGED <<tuples, handle, txn, stream, fut>>

\* the closure of the fdb-network-thread: fdb_run_network() returns `res`,
\* the thread sets FDB_NETWORK_STOPPED and finishes with `res`
NetworkThread(res) ==
    /\ net.thread = "running"
    /\ net' = [net EXCEPT !.FDB_NETWORK_STOPPED = TRUE, !.thread = res]
    /\ UNCHANGED <<tuples, handle, txn, stream, fut>>

\* stop_network() from the join on: the thread has finished, and its result
\* is unwrapped
StopNetworkJoin ==
    /\ net.pc = "join"
    /\ net.thread \in Rc
    /\ net' = Ended([net EXCEPT !.pc = "idle"], "stop_network",
                    IF net.thread = "ok" THEN "return" ELSE "panic")
    /\ UNCHANGED <<tuples, handle, txn, stream, fut>>

NextNet ==
    \/ \E setup \in Rc, spawn \in Rc : StartNetwork(setup, spawn)
    \/ \E stop \in Rc : StopNetwork(stop)
    \/ \E res \in Rc : NetworkThread(res)
    \/ StopNetworkJoin

SpecNet == Init /\ [][NextNet]_vars

\* C21: once a call of stop_network has returned, every later call of
\* start_network panics.
C21_NoRestartAfterStop ==
    \A i \in 1..Len(net.log) : \A j \in 1..Len(net.log) :
        (/\ i < j
         /\ net.log[i] = <<"stop_network", "return">>
         /\ net.log[j][1] = "start_network") => net.log[j][2] = "panic"

\* the test's sequence: start, stop, and a start that panicked
C21_Witness ==
    net.log = << <<"start_network", "return">>, <<"stop_network", "return">>,
                 <<"start_network", "panic">> >>

---------------------------------------------------------------------------
(* Drop for FdbDatabase and FdbTransaction.                                *)

\* #[derive(Clone)]: clone `c` is cloned into `d`, Arc::clone adds one to
\* the strong count
Clone(h, c, d) ==
    /\ handle[h].clones[c] = "live"
    /\ handle[h].clones[d] = "unused"
    /\ handle' = [handle EXCEPT ![h].strong = @ + 1, ![h].clones[d] = "live"]
    /\ UNCHANGED <<tuples, net, txn, stream, fut>>

\* Drop::drop up to the match: Arc::try_unwrap is a compare-exchange of the
\* strong count from 1 to 0; on Ok the native handle is destroyed, on Err
\* the Arc is still held as `at`
DropTryUnwrap(h, c) ==
    /\ handle[h].clones[c] = "live"
    /\ handle' = IF handle[h].strong = 1
                 THEN [handle EXCEPT ![h].strong = 0, ![h].destroyed = @ + 1,
                                     ![h].clones[c] = "dropped"]
                 ELSE [handle EXCEPT ![h].clones[c] = "err"]
    /\ UNCHANGED <<tuples, net, txn, stream, fut>>

\* Drop::drop, the Err arm: drop(at) takes one from the strong count, and
\* frees the Arc's allocation (a NonNull, which has no drop glue) at zero
DropAt(h, c) ==
    /\ handle[h].clones[c] = "err"
    /\ handle' = [handle EXCEPT ![h].strong = @ - 1, ![h].clones[c] = "dropped"]
    /\ UNCHANGED <<tuples, net, txn, stream, fut>>

NextDrop ==
    \E h \in Handles : \E c \in 1..MaxClones :
        \/ \E d \in 1..MaxClones : Clone(h, c, d)
        \/ DropTryUnwrap(h, c)
        \/ DropAt(h, c)

SpecDrop == Init /\ [][NextDrop]_vars

Held(h) == {c \in 1..MaxClones : handle[h].clones[c] \in {"live", "err"}}

\* C22: the native handle is destroyed exactly once, when the last clone is
\* dropped, whatever the order and the interleaving of the drops: never
\* while a clone is held, and always once none is.
C22_DestroyedWithLastClone ==
    \A h \in Handles :
        /\ handle[h].destroyed <= 1
        /\ (handle[h].destroyed = 1) <=> (Held(h) = {})

---------------------------------------------------------------------------
(* FdbDatabase::run and FdbDatabase::read.                                 *)

MaxAttempts == 3

\* what the closure can return: two values, a layer error, and two errors
\* of the client library
ClosureResults ==
    {<<"Ok", "v1">>, <<"Ok", "v2">>, <<"Err", "layer">>,
     <<"Err", "not_committed">>, <<"Err", "timed_out">>}

\* what t.commit() and t.on_error(e) can resolve to
CommitResults == {<<"Ok">>, <<"Err", "not_committed">>, <<"Err", "unknown_result">>}
OnErrorResults == {<<"Ok">>, <<"Err", "fatal">>}

\* FdbError::layer_error(e.code())
layer_error(e) == e = "layer"

Awaited(t, event) == [t EXCEPT !.awaited = Append(t.awaited, event)]
Returned(t, result) == [t EXCEPT !.pc = "done", !.result = result]

\* run / read up to the loop: self.create_transaction()? returns `created`
Begin(op, created) ==
    /\ txn.pc = "idle"
    /\ txn' = IF created[1] = "Ok" THEN [txn EXCEPT !.op = op, !.pc = "closure"]
              ELSE Returned([txn EXCEPT !.op = op], created)
    /\ UNCHANGED <<tuples, net, handle, stream, fut>>

\* a closure step that hands every error to on_error
Closure_retrying_layer(r) ==
    /\ txn.pc = "closure"
    /\ Len(SelectSeq(txn.awaited, LAMBDA a : a[1] = "closure")) < MaxAttempts
    /\ txn' = LET t == Awaited([txn EXCEPT !.ret_val = r], <<"closure", r>>)
              IN IF r[1] = "Err" THEN [t EXCEPT !.pc = "on_error", !.e = r[2]]
                 ELSE IF txn.op = "run" THEN [t EXCEPT !.pc = "commit"]
                 ELSE Returned(t, r)
    /\ UNCHANGED <<tuples, net, handle, stream, fut>>

\* let ret_val = f(t.clone()).await, where the closure returns `r`, and what
\* follows up to the next await or return
Closure(r) ==
    /\ txn.pc = "closure"
    /\ Len(SelectSeq(txn.awaited, LAMBDA a : a[1] = "closure")) < MaxAttempts
    /\ txn' = LET t == Awaited([txn EXCEPT !.ret_val = r], <<"closure", r>>)
              IN IF r[1] = "Err"
                 THEN IF layer_error(r[2]) THEN Returned(t, r)
                      ELSE [t EXCEPT !.pc = "on_error", !.e = r[2]]
                 ELSE IF txn.op = "run" THEN [t EXCEPT !.pc = "commit"]
                 ELSE Returned(t, r)
    /\ UNCHANGED <<tuples, net, handle, stream, fut>>

\* a commit step that returns the closure's value whatever the commit did
Commit_unchecked(r) ==
    /\ txn.pc = "commit"
    /\ txn' = Returned(Awaited(txn, <<"commit", r>>), txn.ret_val)
    /\ UNCHANGED <<tuples, net, handle, stream, fut>>

\* t.commit().await resolves to `r` (run only)
Commit(r) ==
    /\ txn.pc = "commit"
    /\ txn' = LET t == Awaited(txn, <<"commit", r>>)
              IN IF r[1] = "Err" THEN [t EXCEPT !.pc = "on_error", !.e = r[2]]
                 ELSE Returned(t, txn.ret_val)
    /\ UNCHANGED <<tuples, net, handle, stream, fut>>

\* t.on_error(e).await resolves to `r`
OnError(r) ==
    /\ txn.pc = "on_error"
    /\ txn' = LET t == Awaited(txn, <<"on_error", txn.e, r>>)
              IN IF r[1] = "Err" THEN Returned(t, r)
                 ELSE [t EXCEPT !.pc = "closure"]
    /\ UNCHANGED <<tuples, net, handle, stream, fut>>

NextRun ==
    \/ \E op \in {"run", "read"}, created \in {<<"Ok">>, <<"Err", "no_cluster">>} :
           Begin(op, created)
    \/ \E r \in ClosureResults : Closure(r)
    \/ \E r \in CommitResults : Commit(r)
    \/ \E r \in OnErrorResults : OnError(r)

SpecRun == Init /\ [][NextRun]_vars

LastAwaited(n) == txn.awaited[Len(txn.awaited) - n]

\* C23: run returns Ok(v) only when the last thing it awaited was a commit
\* that succeeded and the closure invocation right before that commit, the
\* most recent one, returned Ok(v); so every failed commit is followed by
\* another closure invocation and a successful commit before any Ok.
C23_OkOnlyAfterCommit ==
    (txn.op = "run" /\ txn.pc = "done" /\ txn.result[1] = "Ok") =>
        /\ Len(txn.awaited) >= 2
        /\ LastAwaited(0) = <<"commit", <<"Ok">> >>
        /\ LastAwaited(1) = <<"closure", txn.result>>
        /\ \A i \in 1..Len(txn.awaited) :
              (txn.awaited[i][1] = "commit" /\ txn.awaited[i][2][1] = "Err") =>
                 \E j \in (i + 1)..Len(txn.awaited) : \E k \in (j + 1)..Len(txn.awaited) :
                    /\ txn.awaited[j][1] = "closure"
                    /\ txn.awaited[k] = <<"commit", <<"Ok">> >>

\* run returned Ok("v2") on the second attempt, after a failed commit
C23_Witness ==
    /\ txn.op = "run"
    /\ txn.pc = "done"
    /\ txn.result = <<"Ok", "v2">>
    /\ txn.awaited = << <<"closure", <<"Ok", "v1">> >>,
                        <<"commit", <<"Err", "not_committed">> >>,
                        <<"on_error", "not_committed", <<"Ok">> >>,
                        <<"closure", <<"Ok", "v2">> >>,
                        <<"commit", <<"Ok">> >> >>

\* the error of an awaited closure or commit; "" when it did not fail
ErrorOf(a) ==
    IF a[1] \in {"closure", "commit"} /\ a[2][1] = "Err" THEN a[2][2] ELSE ""

IsLast(i) == i = Len(txn.awaited)

\* C24: in run and read, a layer error of the closure is returned at once,
\* with no on_error and no retry; every other error of the closure and every
\* error of commit is given to on_error; the closure runs again exactly when
\* on_error succeeded, and on_error's error is the result otherwise.
C24_ErrorHandling ==
    \A i \in 1..Len(txn.awaited) :
        LET a == txn.awaited[i]
        IN /\ (a[1] = "closure" /\ ErrorOf(a) # "" /\ layer_error(ErrorOf(a))) =>
                 IsLast(i) /\ txn.pc = "done" /\ txn.result = a[2]
           /\ (ErrorOf(a) # "" /\ ~layer_error(ErrorOf(a))) =>
                 IF IsLast(i) THEN txn.pc = "on_error" /\ txn.e = ErrorOf(a)
                 ELSE /\ txn.awaited[i + 1][1] = "on_error"
                      /\ txn.awaited[i + 1][2] = ErrorOf(a)
           /\ (a[1] = "on_error" /\ a[3][1] = "Ok") =>
                 IF IsLast(i) THEN txn.pc = "closure"
                 ELSE txn.awaited[i + 1][1] = "closure"
           /\ (a[1] = "on_error" /\ a[3][1] = "Err") =>
                 IsLast(i) /\ txn.pc = "done" /\ txn.result = a[3]
           /\ (a[1] = "closure" /\ i > 1) =>
                 /\ txn.awaited[i - 1][1] = "on_error"
                 /\ txn.awaited[i - 1][3][1] = "Ok"

\* read retried a failed closure once, then returned the layer error of the
\* second invocation
C24_Witness ==
    /\ txn.op = "read"
    /\ txn.pc = "done"
    /\ txn.result = <<"Err", "layer">>
    /\ txn.awaited = << <<"closure", <<"Err", "timed_out">> >>,
                        <<"on_error", "timed_out", <<"Ok">> >>,
                        <<"closure", <<"Err", "layer">> >> >>

---------------------------------------------------------------------------
(* Range reads: FdbStreamKeyValue and its RangeResultStateMachine.         *)

MaxKeys == 3
MaxRepolls == 2

\* Option<i32>: <<>> is None, <<x>> is Some(x)
unwrap_or(o, default) == IF o = <<>> THEN default ELSE o[1]

Min(a, b) == IF a <= b THEN a ELSE b

\* KeySelector::first_greater_or_equal, KeySelector::first_greater_than
first_greater_or_equal(key) == [key |-> key, or_equal |-> FALSE, offset |-> 1]
first_greater_than(key) == [key |-> key, or_equal |-> TRUE, offset |-> 1]

\* fdb_transaction_get_range: the future of one fetch, as the request made
fdb_transaction_get_range(begin_key, end_key, options, iteration) ==
    [begin_key |-> begin_key, end_key |-> end_key, limit |-> options.limit,
     mode |-> options.mode, iteration |-> iteration, reverse |-> options.reverse]

\* The store.  A key selector resolves to the position, among the store's
\* keys in ascending order, of the last key less than (or equal to, with
\* or_equal) its key, plus its offset; a request covers the keys from the
\* position of its begin selector up to, not including, that of its end
\* selector.
RECURSIVE Ascending(_)
Ascending(keys) ==
    IF keys = {} THEN <<>>
    ELSE LET least == CHOOSE k \in keys : \A o \in keys : k <= o
         IN <<least>> \o Ascending(keys \ {least})

Position(keys, sel) ==
    Cardinality({k \in keys : k < sel.key \/ (sel.or_equal /\ k = sel.key)}) + sel.offset

Covered(keys, request) ==
    LET between == SubSeq(Ascending(keys), Position(keys, request.begin_key),
                          Position(keys, request.end_key) - 1)
    IN IF request.reverse THEN [i \in 1..Len(between) |-> between[Len(between) + 1 - i]]
       ELSE between

\* the KeyValueArray a fetch resolves to: up to n of the keys it covers and
\* no more than its limit (0 is no limit); `more` is set when keys remain,
\* and may be set when none does
KeyValueArray(keys, request, n, more) ==
    LET covered == Covered(keys, request)
        count == Min(n, IF request.limit = 0 THEN Len(covered)
                        ELSE Min(request.limit, Len(covered)))
    IN [kvs |-> SubSeq(covered, 1, count), index |-> 0, count |-> count,
        more |-> (more \/ count < Len(covered))]

\* FdbStreamKeyValue::new, with the history of the stream
FdbStreamKeyValue_new(keys, begin, end, options) ==
    LET limit == IF options.limit = 0 THEN <<>> ELSE <<options.limit>>
        iteration == IF options.mode = "Iterator" THEN <<1>> ELSE <<>>
        future == fdb_transaction_get_range(
                      begin, end, [options EXCEPT !.limit = unwrap_or(limit, 0)],
                      unwrap_or(iteration, 0))
    IN [mode |-> options.mode, reverse |-> options.reverse,
        iteration |-> iteration, limit |-> limit,
        begin_sel |-> begin, end_sel |-> end,
        range_result_state_machine_state |-> "Fetching",
        range_result_state_machine_data |->
            [kind |-> "Fetching", fdb_future_key_value_array |-> future],
        keys |-> keys, fetches |-> <<future>>, batches |-> <<>>,
        yielded |-> <<>>, ret |-> <<>>, repolls |-> 0]

Panicked(s) == [s EXCEPT !.range_result_state_machine_state = "panicked"]

Done(s) ==
    [s EXCEPT !.range_result_state_machine_state = "Done",
              !.range_result_state_machine_data = [kind |-> "Done"]]

\* a transition action that leaves the last key inside the next request
step_once_with_event_inclusive(s, event) ==
    IF s.range_result_state_machine_state = "Fetching"
    THEN IF event.kind = "FetchOk"
         THEN LET key == event.kvs[event.count]
                  moved ==
                    IF event.more
                    THEN [s EXCEPT
                            !.iteration = IF @ = <<>> THEN @ ELSE <<@[1] + 1>>,
                            !.limit = IF @ = <<>> THEN @ ELSE <<@[1] - event.count>>,
                            !.end_sel = IF s.reverse THEN first_greater_than(key) ELSE @,
                            !.begin_sel = IF s.reverse THEN @
                                          ELSE first_greater_or_equal(key)]
                    ELSE s
              IN [moved EXCEPT
                    !.range_result_state_machine_data =
                        [kind |-> "KeyValueArrayAvailable", kvs |-> event.kvs,
                         index |-> event.index, count |-> event.count,
                         more |-> event.more],
                    !.range_result_state_machine_state = "KeyValueArrayAvailable"]
         ELSE IF event.kind = "FetchDone" THEN Done(s)
         ELSE IF event.kind = "FetchError"
            THEN [s EXCEPT !.range_result_state_machine_data =
                               [kind |-> "Error", fdb_error |-> event.fdb_error],
                           !.range_result_state_machine_state = "Error"]
         ELSE Panicked(s)
    ELSE IF s.range_result_state_machine_state = "KeyValueArrayAvailable"
    THEN IF event.kind = "FetchNextBatch"
         THEN [s EXCEPT !.range_result_state_machine_data =
                            [kind |-> "Fetching",
                             fdb_future_key_value_array |->
                                 event.fdb_future_key_value_array],
                        !.range_result_state_machine_state = "Fetching"]
         ELSE IF event.kind = "FetchDone" THEN Done(s)
         ELSE Panicked(s)
    ELSE Panicked(s)

\* RangeResultStateMachine::step_once_with_event
step_once_with_event(s, event) ==
    IF s.range_result_state_machine_state = "Fetching"
    THEN IF event.kind = "FetchOk"
         THEN LET key == event.kvs[event.count]
                  moved ==
                    IF event.more
                    THEN [s EXCEPT
                            !.iteration = IF @ = <<>> THEN @ ELSE <<@[1] + 1>>,
                            !.limit = IF @ = <<>> THEN @ ELSE <<@[1] - event.count>>,
                            !.end_sel = IF s.reverse THEN first_greater_or_equal(key)
                                        ELSE @,
                            !.begin_sel = IF s.reverse THEN @
                                          ELSE first_greater_than(key)]
                    ELSE s
              IN [moved EXCEPT
                    !.range_result_state_machine_data =
                        [kind |-> "KeyValueArrayAvailable", kvs |-> event.kvs,
                         index |-> event.index, count |-> event.count,
                         more |-> event.more],
                    !.range_result_state_machine_state = "KeyValueArrayAvailable"]
         ELSE IF event.kind = "FetchDone" THEN Done(s)
         ELSE IF event.kind = "FetchError"
            THEN [s EXCEPT !.range_result_state_machine_data =
                               [kind |-> "Error", fdb_error |-> event.fdb_error],
                           !.range_result_state_machine_state = "Error"]
         ELSE Panicked(s)
    ELSE IF s.range_result_state_machine_state = "KeyValueArrayAvailable"
    THEN IF event.kind = "FetchNextBatch"
         THEN [s EXCEPT !.range_result_state_machine_data =
                            [kind |-> "Fetching",
                             fdb_future_key_value_array |->
                                 event.fdb_future_key_value_array],
                        !.range_result_state_machine_state = "Fetching"]
         ELSE IF event.kind = "FetchDone" THEN Done(s)
         ELSE Panicked(s)
    ELSE Panicked(s)

\* a next request that asks for the whole limit again
NextBatch_whole_limit(s) ==
    fdb_transaction_get_range(
        s.begin_sel, s.end_sel,
        [limit |-> s.fetches[1].limit, mode |-> s.mode, reverse |-> s.reverse],
        unwrap_or(s.iteration, 0))

\* the next request of a stream, from its limit, selectors and iteration
NextBatch(s) ==
    fdb_transaction_get_range(
        s.begin_sel, s.end_sel,
        [limit |-> unwrap_or(s.limit, 0), mode |-> s.mode, reverse |-> s.reverse],
        unwrap_or(s.iteration, 0))

RECURSIVE poll_next(_, _)

\* RangeResultStateMachine::poll_next, where the future it polls, if it
\* polls one, is pending (ready = <<>>), resolves to an error
\* (<<"Err", e>>), or resolves to a KeyValueArray of up to n keys
\* (<<"Ok", n, more>>); ret is what the call returns
poll_next(s, ready) ==
    LET state == s.range_result_state_machine_state
        data == s.range_result_state_machine_data
    IN IF state = "Fetching"
       THEN IF data.kind # "Fetching" THEN Panicked(s)
            ELSE IF ready = <<>> THEN [s EXCEPT !.ret = <<"Pending">>]
            ELSE IF ready[1] = "Err"
               THEN poll_next(step_once_with_event(
                                  s, [kind |-> "FetchError", fdb_error |-> ready[2]]),
                              ready)
            ELSE LET a == KeyValueArray(s.keys, data.fdb_future_key_value_array,
                                        ready[2], ready[3])
                 IN IF a.count = 0
                    THEN poll_next(step_once_with_event(s, [kind |-> "FetchDone"]),
                                   ready)
                    ELSE poll_next(
                             step_once_with_event(
                                 [s EXCEPT !.batches = Append(@, a.kvs)],
                                 [kind |-> "FetchOk", kvs |-> a.kvs, index |-> a.index,
                                  count |-> a.count, more |-> a.more]),
                             ready)
       ELSE IF state = "KeyValueArrayAvailable"
       THEN IF data.kind # "KeyValueArrayAvailable" THEN Panicked(s)
            ELSE IF data.index = data.count
               THEN IF data.more /\ s.limit # <<0>>
                    THEN poll_next(
                             step_once_with_event(
                                 [s EXCEPT !.fetches = Append(@, NextBatch(s))],
                                 [kind |-> "FetchNextBatch",
                                  fdb_future_key_value_array |-> NextBatch(s)]),
                             ready)
                    ELSE poll_next(step_once_with_event(s, [kind |-> "FetchDone"]),
                                   ready)
            ELSE [s EXCEPT !.range_result_state_machine_data.index = @ + 1,
                           !.yielded = Append(@, data.kvs[data.index + 1]),
                           !.ret = <<"Some", data.kvs[data.index + 1]>>]
       ELSE IF state = "Error"
       THEN IF data.kind # "Error" THEN Panicked(s)
            ELSE [s EXCEPT !.ret = <<"Err", data.fdb_error>>]
       ELSE IF state = "Done" THEN [s EXCEPT !.ret = <<"None">>]
       ELSE s

Absorbed(s) == s.range_result_state_machine_state \in {"Done", "Error"}

\* rt.get_range(begin, end, options) over a store holding `keys`
GetRange(keys, begin, end, options) ==
    /\ stream = NoStream
    /\ stream' = FdbStreamKeyValue_new(keys, begin, end, options)
    /\ UNCHANGED <<tuples, net, handle, txn, fut>>

\* a poll that starts the range read over once it has ended
PollNext_restarting(ready) ==
    /\ stream.range_result_state_machine_state \notin {"none", "panicked"}
    /\ Absorbed(stream) => stream.repolls < MaxRepolls
    /\ stream' =
         IF Absorbed(stream)
         THEN poll_next(
                  [stream EXCEPT !.repolls = @ + 1,
                      !.range_result_state_machine_state = "Fetching",
                      !.range_result_state_machine_data =
                          [kind |-> "Fetching",
                           fdb_future_key_value_array |-> stream.fetches[1]]],
                  ready)
         ELSE poll_next(stream, ready)
    /\ UNCHANGED <<tuples, net, handle, txn, fut>>

\* Stream::poll_next for FdbStreamKeyValue
PollNext(ready) ==
    /\ stream.range_result_state_machine_state \notin {"none", "panicked"}
    /\ Absorbed(stream) => stream.repolls < MaxRepolls
    /\ stream' = poll_next([stream EXCEPT !.repolls = IF Absorbed(stream)
                                                        THEN @ + 1 ELSE @], ready)
    /\ UNCHANGED <<tuples, net, handle, txn, fut>>

NextRange ==
    \/ \E keys \in SUBSET (1..MaxKeys), b \in {0, 2}, e \in {MaxKeys, MaxKeys + 1},
          limit \in 0..MaxKeys, mode \in {"Iterator", "WantAll"}, reverse \in BOOLEAN :
          GetRange(keys, first_greater_or_equal(b), first_greater_or_equal(e),
                   [limit |-> limit, mode |-> mode, reverse |-> reverse])
    \/ \E ready \in {<<>>, <<"Err", "transaction_too_old">>, <<"Err", "timed_out">>}
                    \cup {<<"Ok", n, more>> : n \in 1..MaxKeys, more \in BOOLEAN} :
          PollNext(ready)

SpecRange == Init /\ [][NextRange]_vars

Started == stream.range_result_state_machine_state \notin {"none", "panicked"}

RECURSIVE Flatten(_)
Flatten(seqs) == IF seqs = <<>> THEN <<>> ELSE seqs[1] \o Flatten(Tail(seqs))

\* the batches fetched before the n-th request was made, as one sequence
FetchedBefore(n) == Flatten(SubSeq(stream.batches, 1, n - 1))

\* what the stream has to yield in all: the keys its first request covers,
\* cut at the limit when there is one
Expected ==
    LET covered == Covered(stream.keys, stream.fetches[1])
    IN IF stream.limit = <<>> THEN covered
       ELSE SubSeq(covered, 1, Min(stream.fetches[1].limit, Len(covered)))

\* C25: the key-values of each batch are yielded once each, in the order of
\* the batch; every follow-up request starts from the last key yielded
\* (forward: begin = first_greater_than(that key), reverse: end =
\* first_greater_or_equal(that key)) and keeps the other selector; against
\* an unchanged store nothing is yielded twice and nothing is skipped.
C25_BatchesInOrder ==
    Started =>
        /\ stream.yielded =
             IF stream.range_result_state_machine_state = "KeyValueArrayAvailable"
             THEN FetchedBefore(Len(stream.batches))
                  \o SubSeq(stream.batches[Len(stream.batches)], 1,
                            stream.range_result_state_machine_data.index)
             ELSE Flatten(stream.batches)
        /\ \A n \in 2..Len(stream.fetches) :
             LET key == FetchedBefore(n)[Len(FetchedBefore(n))]
             IN IF stream.reverse
                THEN /\ stream.fetches[n].end_key = first_greater_or_equal(key)
                     /\ stream.fetches[n].begin_key = stream.fetches[1].begin_key
                ELSE /\ stream.fetches[n].begin_key = first_greater_than(key)
                     /\ stream.fetches[n].end_key = stream.fetches[1].end_key
        /\ IsPrefix(stream.yielded, Covered(stream.keys, stream.fetches[1]))
        /\ stream.range_result_state_machine_state = "Done" =>
               stream.yielded = Expected

\* a forward read of three keys has ended after three batches of one key
C25_Witness ==
    /\ stream.range_result_state_machine_state = "Done"
    /\ ~stream.reverse
    /\ stream.yielded = <<1, 2, 3>>
    /\ stream.batches = << <<1>>, <<2>>, <<3>> >>
    /\ Len(stream.fetches) >= 3

\* C26: with a positive limit L, the stream yields at most L key-values;
\* every follow-up request asks for L minus what was fetched before it, and
\* none is made once that is zero.
C26_LimitKept ==
    (Started /\ stream.fetches[1].limit > 0) =>
        /\ Len(stream.yielded) <= stream.fetches[1].limit
        /\ \A n \in 2..Len(stream.fetches) :
             /\ stream.fetches[n].limit =
                    stream.fetches[1].limit - Len(FetchedBefore(n))
             /\ stream.fetches[n].limit > 0

\* a read with limit 2 of a store of three keys fetched one key, asked for
\* one more, and ended with the limit used up while the store held more
C26_Witness ==
    /\ stream.range_result_state_machine_state = "Done"
    /\ stream.fetches[1].limit = 2
    /\ Len(stream.fetches) = 2
    /\ stream.fetches[2].limit = 1
    /\ Len(stream.yielded) = 2
    /\ Cardinality(stream.keys) = 3
    /\ stream.limit = <<0>>

\* C27: Done and Error are absorbing: a poll in Done returns end of stream,
\* a poll in Error returns the same error, and either changes nothing else:
\* no state or data change, no fetch, no yield, no panic.
C27_Absorbing ==
    [][Absorbed(stream) =>
          stream' = [stream EXCEPT
                        !.repolls = @ + 1,
                        !.ret = IF stream.range_result_state_machine_state = "Done"
                                THEN <<"None">>
                                ELSE <<"Err", stream.range_result_state_machine_data.fdb_error>>]
      ]_vars

\* the stream has been polled again and again after an error that followed
\* a batch
C27_Witness ==
    /\ stream.range_result_state_machine_state = "Error"
    /\ stream.repolls >= MaxRepolls
    /\ stream.ret = <<"Err", "timed_out">>
    /\ stream.yielded # <<>>

---------------------------------------------------------------------------
(* Polling an FdbFuture while the network thread resolves it.              *)

MaxPolls == 4

\* fdb_fut_ref.waker = None; Poll::Ready(FdbFutureGet::get(fut_c_ptr))
Ready(f) == [f EXCEPT !.waker = FALSE, !.pc = "idle", !.ret = "Ready"]

\* Poll::Pending
Pending(f) == [f EXCEPT !.pc = "idle", !.ret = "Pending", !.awaited = f.cx]

\* poll up to the first fdb_future_is_ready: the task is polled with a
\* waker of its own (the number of the poll)
PollStart ==
    /\ fut.pc = "idle"
    /\ fut.polls < MaxPolls
    /\ fut' = LET f == [fut EXCEPT !.polls = @ + 1, !.cx = fut.polls + 1]
              IN IF ~fut.waker THEN [f EXCEPT !.ret = "panic"]
                 ELSE IF fut.ready THEN Ready(f)
                 ELSE [f EXCEPT !.pc = "register"]
    /\ UNCHANGED <<tuples, net, handle, txn, stream>>

\* arc_atomic_waker_ref.register(cx.waker())
PollRegister ==
    /\ fut.pc = "register"
    /\ fut' = [fut EXCEPT !.atomic_waker = fut.cx, !.pc = "recheck"]
    /\ UNCHANGED <<tuples, net, handle, txn, stream>>

\* a poll that does not look at the future again after registering
PollRecheck_skipped ==
    /\ fut.pc = "recheck"
    /\ fut' = IF ~fut.callback_set THEN [fut EXCEPT !.pc = "set_callback"]
              ELSE Pending(fut)
    /\ UNCHANGED <<tuples, net, handle, txn, stream>>

\* the second fdb_future_is_ready, and the branch on callback_set
PollRecheck ==
    /\ fut.pc = "recheck"
    /\ fut' = IF fut.ready THEN Ready(fut)
              ELSE IF ~fut.callback_set THEN [fut EXCEPT !.pc = "set_callback"]
              ELSE Pending(fut)
    /\ UNCHANGED <<tuples, net, handle, txn, stream>>

\* fdb_future_set_callback(fut_c_ptr, Some(FDBCallback), ...) returns rc
PollSetCallback(rc) ==
    /\ fut.pc = "set_callback"
    /\ fut' = IF rc = "ok"
              THEN Pending([fut EXCEPT !.callback = "set", !.callback_set = TRUE])
              ELSE [fut EXCEPT !.pc = "idle", !.ret = "ReadyErr"]
    /\ UNCHANGED <<tuples, net, handle, txn, stream>>

\* the network thread makes the native future ready
FutureReady ==
    /\ ~fut.ready
    /\ fut' = [fut EXCEPT !.ready = TRUE]
    /\ UNCHANGED <<tuples, net, handle, txn, stream>>

\* the native future, ready, calls its callback, once: FDBCallback wakes
\* the AtomicWaker, which takes the Waker it holds, if any, and wakes it
FDBCallback ==
    /\ fut.ready
    /\ fut.callback = "set"
    /\ fut' = [fut EXCEPT !.callback = "fired", !.atomic_waker = 0,
                          !.woken = IF fut.atomic_waker = 0 THEN @
                                    ELSE @ \cup {fut.atomic_waker}]
    /\ UNCHANGED <<tuples, net, handle, txn, stream>>

NextFuture ==
    \/ PollStart
    \/ PollRegister
    \/ PollRecheck
    \/ \E rc \in Rc : PollSetCallback(rc)
    \/ FutureReady
    \/ FDBCallback

\* A poll that has started runs to its return; the future becomes ready;
\* a ready future calls the callback it was given.  Nothing makes the task
\* poll again: only a wake does.
SpecFuture ==
    /\ Init
    /\ [][NextFuture]_vars
    /\ WF_vars(PollRegister)
    /\ WF_vars(PollRecheck)
    /\ WF_vars(\E rc \in Rc : PollSetCallback(rc))
    /\ WF_vars(FutureReady)
    /\ WF_vars(FDBCallback)

\* C28: no wake-up is lost: whenever a poll has returned Pending, the waker
\* that poll registered is eventually woken, or a poll made in the meantime
\* has returned the result.
C28_NoLostWakeup ==
    (fut.pc = "idle" /\ fut.ret = "Pending")
        ~> (fut.awaited \in fut.woken \/ fut.ret \in {"Ready", "ReadyErr"})

\* the second poll returned Pending with the callback installed by the
\* first, and its waker was woken by the callback
C28_Witness ==
    /\ fut.pc = "idle"
    /\ fut.ret = "Pending"
    /\ fut.polls = 2
    /\ fut.awaited = 2
    /\ fut.callback = "fired"
    /\ fut.woken = {2}



















====
